---- MODULE Spec2Model ----
(***************************************************************************)
(* PTRA (patient trajectory analysis): model of the trajectory package     *)
(* (src/trajectory/metrics.go), the binomial test (src/utils/binomial.go)  *)
(* and the experiment construction (src/app/parseData.go).                 *)
(*                                                                         *)
(* Numbers.  float64 values are kept as exact scaled integers:             *)
(*   - elapsed time in units of 1/TimeScale year (TimeScale = lcm(12,365), *)
(*     so that year + month/12 + day/365 is an integer);                   *)
(*   - relative risks in units of 1/RRUnit.                                *)
(* Indices into Go slices keep Go's 0-based values; the TLA+ sequence      *)
(* holding the slice is read at index+1.                                   *)
(***************************************************************************)
EXTENDS Integers, Sequences, FiniteSets, TLC

VARIABLES
    phase,        \* position of the main flow of the modelled run
    cfg,          \* command-line configuration of the run
    Diagnoses,    \* Patient.Diagnoses, per PID
    DxDRR,        \* Experiment.DxDRR
    DxDPatients,  \* Experiment.DxDPatients (lists of PIDs, 0 = nil patient)
    Pairs,        \* Experiment.Pairs
    heap,         \* the Trajectory objects, per allocating goroutine
    stack,        \* backing array of the seed stack of BuildTrajectories
    wk,           \* per worker: the locals of the RangeReduce body
    Trajectories, \* Experiment.Trajectories
    savedExp,     \* DxDRR and DxDPatients of the run that wrote the files
    files,        \* the lines of the --saveRR file and of its .patients.csv
    PIDMap,       \* PatientMap.PIDMap: Sex and CohortAge per PID
    Cohorts,      \* Experiment.Cohorts (the array returned by InitializeCohorts)
    DPatients,    \* Experiment.DPatients
    sel,          \* locals of selectRandomPatientsFromSimilarCohorts
    filters,      \* the filters argument of BuildTrajectories
    risk,         \* InitializeExperimentRelativeRiskRatios: what each (d1,d2) body did
    abcFile,      \* the edge list written by convertTrajectoryPairsToAbcFormat
    dumpFile,     \* the cluster lines that mcl wrote, one list of codes per line
    graphs,       \* convertToTrajectoryClusterGraphs: pool, position and output
    binom,        \* the arguments and the result of a call of utils.BinomialCdf
    subject       \* the Patient handed to a patient filter, and the filter's result

searchVars == <<Pairs, heap, stack, wk, Trajectories, filters>>
persistVars == <<savedExp, files>>
cohortVars == <<PIDMap, Cohorts, DPatients, sel>>
riskVars == <<risk>>
clusterVars == <<abcFile, dumpFile, graphs>>
kernelVars == <<binom, subject>>

vars == <<phase, cfg, Diagnoses, DxDRR, DxDPatients, searchVars, persistVars,
          cohortVars, riskVars, clusterVars, kernelVars>>

-----------------------------------------------------------------------------
(* Bounds of the model *)

NumDiag == 3          \* number of diagnosis codes (NofDiagnosisCodes)
NumPatients == 2      \* number of patients in the trajectory runs
MaxDiags == 3         \* longest diagnosis list of a patient
MaxThreads == 2       \* largest number of RangeReduce workers
MaxTrajLen == 4       \* largest configured --maxTrajectoryLength
WindowYears == 1      \* --maxYears minus --minYears
MaxRejected == 0      \* most supported cells the sampling test rejects
MaxFilters == 2       \* longest list of trajectory filters
MaxOccurs == 8        \* largest pair support in the pair-selection runs
PairDiag == 2         \* number of diagnosis codes in the pair-selection runs

(* Program constants *)

TimeScale == 4380     \* lcm(12, 365): DiagnosisDateToFloat in integers
RRUnit == 8           \* relative risks are counted in eighths
Million == 1000000    \* %f prints six decimals; a tolerance of 10^-6
NilPatient == 0       \* a nil *Patient (the parser never uses PID 0)

DIDs == 0..(NumDiag - 1)
PairDIDs == 0..(PairDiag - 1)
PIDs == 1..NumPatients

-----------------------------------------------------------------------------
(* Small helpers on sequences *)

Range(s) == {s[i] : i \in 1..Len(s)}

Max2(a, b) == IF a > b THEN a ELSE b

RECURSIVE Pow(_, _)
Pow(b, e) == IF e = 0 THEN 1 ELSE b * Pow(b, e - 1)

\* binomial coefficient C(n, k)
RECURSIVE Choose(_, _)
Choose(n, k) ==
    IF k < 0 \/ k > n THEN 0
    ELSE IF k = 0 THEN 1
    ELSE (Choose(n, k - 1) * (n - k + 1)) \div k

RECURSIVE SumFrom(_, _, _)
SumFrom(n, i, hi) == IF i > hi THEN 0 ELSE Choose(n, i) + SumFrom(n, i + 1, hi)

RECURSIVE SeqOfSet(_)
SeqOfSet(S) ==
    IF S = {} THEN <<>>
    ELSE LET m == CHOOSE x \in S : \A y \in S : x <= y
         IN <<m>> \o SeqOfSet(S \ {m})

-----------------------------------------------------------------------------
(* Dates and diagnoses *)

\* DiagnosisDateToFloat, times TimeScale
DiagnosisDateToFloat(d) == d.Year * TimeScale + d.Month * 365 + d.Day * 12

DiagnosisDateSmallerThan(d1, d2) ==
    IF d1.Year < d2.Year THEN TRUE
    ELSE IF d1.Year > d2.Year THEN FALSE
    ELSE IF d1.Month < d2.Month THEN TRUE
    ELSE IF d1.Month > d2.Month THEN FALSE
    ELSE d1.Day < d2.Day

\* 0-based index of the first entry of diags with the given DID, or -1
FirstIndex(diags, did) ==
    IF \E i \in 1..Len(diags) : diags[i].DID = did
    THEN (CHOOSE i \in 1..Len(diags) :
             /\ diags[i].DID = did
             /\ \A j \in 1..(i - 1) : diags[j].DID # did) - 1
    ELSE -1

InWindow(timeBetween, minTime, maxTime) ==
    timeBetween <= maxTime /\ timeBetween >= minTime

countPatientDiagnosis(diags, did) ==
    IF \E i \in 1..Len(diags) : diags[i].DID = did THEN 1 ELSE 0

\* countPatientDiagnosisPair: returns (ctr, i) where i is the index the range
\* loop over p.Diagnoses[d1Index+1:] gives the matching entry, i.e. its
\* position counted from d1Index+1.  panic: d1 is not in the list.
countPatientDiagnosisPair(diags, d1, d2, minTime, maxTime) ==
    LET d1Index == FirstIndex(diags, d1)
        rest == IF d1Index = -1 THEN <<>>
                ELSE SubSeq(diags, d1Index + 2, Len(diags))
        d1Date == diags[d1Index + 1].Date
        hit(i) == /\ rest[i].DID = d2
                  /\ InWindow(DiagnosisDateToFloat(rest[i].Date)
                                - DiagnosisDateToFloat(d1Date), minTime, maxTime)
    IN  IF d1Index = -1 THEN [ctr |-> 0, idx |-> -1, panic |-> TRUE]
        ELSE IF \E i \in 1..Len(rest) : hit(i)
        THEN [ctr |-> 1,
              idx |-> (CHOOSE i \in 1..Len(rest) :
                          hit(i) /\ \A j \in 1..(i - 1) : ~hit(j)) - 1,
              panic |-> FALSE]
        ELSE [ctr |-> 0, idx |-> -1, panic |-> FALSE]

\* countPatientTrajectory: first index i >= idx holding d2 within the window
\* of the date at idx, or -1
countPatientTrajectory(diags, idx, d2, minTime, maxTime) ==
    LET d1Date == diags[idx + 1].Date
        hit(i) == /\ diags[i + 1].DID = d2
                  /\ InWindow(DiagnosisDateToFloat(diags[i + 1].Date)
                                - DiagnosisDateToFloat(d1Date), minTime, maxTime)
        cand == {i \in idx..(Len(diags) - 1) : hit(i)}
    IN  IF cand = {} THEN -1
        ELSE CHOOSE i \in cand : \A j \in cand : i <= j

-----------------------------------------------------------------------------
(* Binomial test (src/utils/binomial.go) *)

\* BinomialCdf(0.5, n, k): betaIncomplete(k, 1+n-k, 0.5) is the regularized
\* incomplete beta function I_0.5(k, n-k+1) = sum_{i=k..n} C(n,i) / 2^n,
\* which the continued fraction evaluates to within 3e-7.  The value is kept
\* as the exact fraction num/den.
BinomialCdf(n, k) ==
    IF k >= n THEN [panic |-> TRUE, num |-> 0, den |-> 1]
    ELSE IF k = 0 THEN [panic |-> FALSE, num |-> 1, den |-> 1]
    ELSE [panic |-> FALSE, num |-> SumFrom(n, k, n), den |-> Pow(2, n)]

\* test < 0.05
BelowSignificance(test) == test.num * 20 < test.den

-----------------------------------------------------------------------------
(* Pair selection *)

Qualifies_AtLeastRR(occurs, RR, minPatients, minRR) ==
    occurs >= minPatients /\ RR >= minRR

\* occurs >= minPatients && RR > minRR
Qualifies(occurs, RR, minPatients, minRR) == occurs >= minPatients /\ RR > minRR

DominantPair_Swapped(i, j, occurs, occursReverse) ==
    IF occurs > occursReverse THEN [First |-> j, Second |-> i]
    ELSE [First |-> i, Second |-> j]

\* maxIndices (lines 801-807)
DominantPair(i, j, occurs, occursReverse) ==
    IF occurs > occursReverse THEN [First |-> i, Second |-> j]
    ELSE [First |-> j, Second |-> i]

\* the body of the loops of selectDiagnosisPairs for one (i, j), j >= i:
\* the pairs it appends
selectPairStep(dxdp, dxdrr, i, j, minPatients, minRR) ==
    LET occurs == Len(dxdp[i][j])
        occursReverse == Len(dxdp[j][i])
        RR == dxdrr[i][j]
        RRReverse == dxdrr[j][i]
    IN  IF i = j THEN <<>>
        ELSE IF Qualifies(occurs, RR, minPatients, minRR)
                /\ Qualifies(occursReverse, RRReverse, minPatients, minRR)
        THEN LET maxOccurs == Max2(occurs, occursReverse)
                 maxIndices == DominantPair(i, j, occurs, occursReverse)
                 test == BinomialCdf(occurs + occursReverse, maxOccurs)
             IN  IF ~test.panic /\ BelowSignificance(test) THEN <<maxIndices>> ELSE <<>>
        ELSE IF Qualifies(occurs, RR, minPatients, minRR)
        THEN <<[First |-> i, Second |-> j]>>
        ELSE IF Qualifies(occursReverse, RRReverse, minPatients, minRR)
        THEN <<[First |-> j, Second |-> i]>>
        ELSE <<>>

RECURSIVE selectFrom(_, _, _, _, _, _, _)
selectFrom(dxdp, dxdrr, n, i, j, minPatients, minRR) ==
    IF i >= n THEN <<>>
    ELSE IF j >= n THEN selectFrom(dxdp, dxdrr, n, i + 1, i + 1, minPatients, minRR)
    ELSE selectPairStep(dxdp, dxdrr, i, j, minPatients, minRR)
         \o selectFrom(dxdp, dxdrr, n, i, j + 1, minPatients, minRR)

selectDiagnosisPairs(dxdp, dxdrr, n, minPatients, minRR) ==
    selectFrom(dxdp, dxdrr, n, 0, 0, minPatients, minRR)

\* the binomial test panics (k >= n) somewhere in the selection
selectPanics(dxdp, dxdrr, n, minPatients, minRR) ==
    \E i \in 0..(n - 1), j \in 0..(n - 1) :
        /\ i < j
        /\ Qualifies(Len(dxdp[i][j]), dxdrr[i][j], minPatients, minRR)
        /\ Qualifies(Len(dxdp[j][i]), dxdrr[j][i], minPatients, minRR)
        /\ BinomialCdf(Len(dxdp[i][j]) + Len(dxdp[j][i]),
                       Max2(Len(dxdp[i][j]), Len(dxdp[j][i]))).panic

-----------------------------------------------------------------------------
(* Trajectory objects.  A pointer is <<arena, index>>: arena 0 holds the    *)
(* seeds allocated by BuildTrajectories, arena w the objects allocated by   *)
(* worker w.                                                                *)

NilPtr == <<0, 0>>

Deref(h, ptr) == h[ptr[1]][ptr[2]]

NilMap == [p \in {} |-> 0]

Last(s) == s[Len(s)]

\* the seed built from a selected pair (lines 863-870)
SeedTrajectory(diagsOf, dxdp, pair, minTime, maxTime) ==
    LET ps == dxdp[pair.First][pair.Second]
    IN  [Diagnoses |-> <<pair.First, pair.Second>>,
         PatientNumbers |-> <<Len(ps)>>,
         Patients |-> <<ps>>,
         TrajMap |-> [p \in Range(ps) |->
                        countPatientDiagnosisPair(diagsOf[p], pair.First, pair.Second,
                                                  minTime, maxTime).idx],
         ID |-> 0]

\* extendTrajectory: the patients of the working map that have d within the
\* window of the entry their index points at, with the index of that d
extendTrajectory(diagsOf, trajMap, d, minTime, maxTime) ==
    LET idx2(p) == countPatientTrajectory(diagsOf[p], trajMap[p], d, minTime, maxTime)
    IN  [p \in {q \in DOMAIN trajMap : idx2(q) # -1} |-> idx2(p)]

\* len(extendedTrajMap) > minPatients
ExtensionSurvives(size, minPatients) == size > minPatients

\* len(newT.Diagnoses) >= maxLength
IsFinal(len, maxLength) == len >= maxLength

NewTrajectory_ParentCount(currentT, d, extendedTrajMap) ==
    LET patients == SeqOfSet(DOMAIN extendedTrajMap)
    IN  [Diagnoses |-> Append(currentT.Diagnoses, d),
         PatientNumbers |-> Append(currentT.PatientNumbers,
                                   Len(currentT.Patients[Len(currentT.Patients)])),
         Patients |-> Append(currentT.Patients, patients),
         TrajMap |-> [p \in {} |-> 0],
         ID |-> 0]

\* the trajectory built at lines 893-907; the patient list is collected by
\* ranging over the map, here in PID order
NewTrajectory(currentT, d, extendedTrajMap) ==
    LET patients == SeqOfSet(DOMAIN extendedTrajMap)
    IN  [Diagnoses |-> Append(currentT.Diagnoses, d),
         PatientNumbers |-> Append(currentT.PatientNumbers, Len(patients)),
         Patients |-> Append(currentT.Patients, patients),
         TrajMap |-> NilMap,
         ID |-> 0]

\* The loop over pairs (lines 887-919) from pair k on, for a popped
\* trajectory currentT whose working map is now acc.tm.  It runs up to and
\* including the first push on lstack, or to the end of the pairs.
\* acc = [k, tm, ctr, final (trajectories appended to ltrajectories),
\*        pushed (the trajectory to push, if any)]
RECURSIVE pairLoop(_, _, _, _, _)
pairLoop(diagsOf, dxdp, pairs, currentT, acc) ==
    IF acc.k > Len(pairs) THEN acc
    ELSE
      LET pair == pairs[acc.k]
          lastT == Last(currentT.Diagnoses)
          next == [acc EXCEPT !.k = acc.k + 1]
      IN  IF pair.First = lastT /\ Len(dxdp[lastT][pair.Second]) >= cfg.minPatients
          THEN LET ext == extendTrajectory(diagsOf, acc.tm, pair.Second,
                                           cfg.minTime, cfg.maxTime)
               IN  IF ExtensionSurvives(Cardinality(DOMAIN ext), cfg.minPatients)
                   THEN LET newT == NewTrajectory(currentT, pair.Second, ext)
                        IN  IF IsFinal(Len(newT.Diagnoses), cfg.maxLength)
                            THEN pairLoop(diagsOf, dxdp, pairs, currentT,
                                          [next EXCEPT !.tm = ext,
                                                       !.final = Append(acc.final, newT)])
                            ELSE [next EXCEPT !.tm = ext, !.ctr = acc.ctr + 1,
                                              !.pushed = <<newT>>]
                   ELSE pairLoop(diagsOf, dxdp, pairs, currentT, next)
          ELSE pairLoop(diagsOf, dxdp, pairs, currentT, next)

FinalizeCurrent_IgnoringCtr(ctr, len, minLength) == len >= minLength

\* ctr == 0 && len(currentT.Diagnoses) >= minLength
FinalizeCurrent(ctr, len, minLength) == ctr = 0 /\ len >= minLength

-----------------------------------------------------------------------------
(* The seed stack and its partitioning *)

\* capacity of a slice grown from empty by n appends of one pointer
RECURSIVE AppendCap(_, _)
AppendCap(n, c) == IF c >= n THEN c ELSE AppendCap(n, IF c = 0 THEN 1 ELSE 2 * c)

\* parallel.RangeReduce: the ranges [low, high) handed to the reducer when
\* the range is split in n batches, in join order
RECURSIVE RangeSplit(_, _, _)
RangeSplit(low, high, n) ==
    IF n <= 1 THEN << <<low, high>> >>
    ELSE LET batchSize == ((high - low - 1) \div n) + 1
             half == n \div 2
             mid == low + batchSize * half
         IN  IF mid >= high THEN << <<low, high>> >>
             ELSE RangeSplit(low, mid, half) \o RangeSplit(mid, high, n - half)

Workers == 1..MaxThreads

\* lstack of a worker: a window of the shared backing array until an append
\* beyond the capacity moves it to an array of its own
LStack(w) ==
    IF wk[w].private THEN wk[w].lstack
    ELSE [i \in 1..(wk[w].hi - wk[w].lo) |-> stack[wk[w].lo + i]]

-----------------------------------------------------------------------------
(* Inputs of the trajectory runs *)

\* a diagnosis list in date order: entry i is dated in year i
DiagListOf(s) ==
    [i \in 1..Len(s) |-> [DID |-> s[i], Date |-> [Year |-> i, Month |-> 1, Day |-> 1]]]

\* the lists over distinct diagnosis codes
DiagLists ==
    {DiagListOf(s) : s \in {t \in UNION {[1..n -> DIDs] : n \in 0..MaxDiags} :
                              \A i, j \in 1..Len(t) : i # j => t[i] # t[j]}}

\* a number per diagnosis list, to number the patients in a fixed order
RECURSIVE ListCode(_)
ListCode(diags) ==
    IF diags = <<>> THEN 0
    ELSE (diags[1].DID + 1) + (NumDiag + 1) * ListCode(Tail(diags))

\* Experiment.DPatients[d]: the patients diagnosed with d
DPatientsOf(diagsOf, d) ==
    SeqOfSet({p \in DOMAIN diagsOf : countPatientDiagnosis(diagsOf[p], d) = 1})

\* d1FollowedByd2Patients (lines 558-566)
FollowedBy(diagsOf, d1, d2, minTime, maxTime) ==
    SeqOfSet({p \in Range(DPatientsOf(diagsOf, d1)) :
                countPatientDiagnosisPair(diagsOf[p], d1, d2, minTime, maxTime).ctr > 0})

TrajConfigs ==
    {c \in [minPatients : 0..1, maxLength : 2..MaxTrajLen, minLength : 2..3,
            minTime : {0, TimeScale},
            maxTime : {TimeScale * y : y \in WindowYears..(WindowYears + 1)},
            minRR : {RRUnit}] :
        /\ c.minLength <= c.maxLength
        /\ c.maxTime = c.minTime + WindowYears * TimeScale}

\* the cells (d1, d2) that some patient supports
SupportedCells(diagsOf, minTime, maxTime) ==
    {c \in DIDs \X DIDs : FollowedBy(diagsOf, c[1], c[2], minTime, maxTime) # <<>>}

IdleWorker ==
    [lo |-> 0, hi |-> 0, private |-> FALSE, lstack |-> <<>>, cur |-> NilPtr,
     k |-> 0, ctr |-> 0, ltrajectories |-> <<>>, pc |-> "done"]

\* BuildTrajectories has not started
SearchIdle ==
    /\ Pairs = <<>>
    /\ heap = [a \in 0..MaxThreads |-> <<>>]
    /\ stack = <<>>
    /\ wk = [w \in Workers |-> IdleWorker]
    /\ Trajectories = <<>>
    /\ filters = <<>>

\* nothing saved by an earlier run
PersistIdle ==
    /\ savedExp = <<>>
    /\ files = [rr |-> <<>>, patients |-> <<>>]

\* the cohort data of the experiment, set to nil by main before the search
CohortIdle ==
    /\ PIDMap = <<>>
    /\ Cohorts = <<>>
    /\ DPatients = <<>>
    /\ sel = <<>>

\* InitializeExperimentRelativeRiskRatios has not run in the modelled flow
RiskIdle ==
    /\ risk = <<>>

\* the clustering step has not run
ClusterIdle ==
    /\ abcFile = <<>>
    /\ dumpFile = <<>>
    /\ graphs = <<>>

\* utils.BinomialCdf has not been called
KernelIdle ==
    /\ binom = <<>>
    /\ subject = <<>>

\* The RR matrix and the pair patient lists as the RR engine leaves them: a
\* cell is either untouched (RR 1.0, no patients) or stored with the
\* patients that followed d1 by d2; which cells pass the sampling test is
\* decided by random draws.
TrajInit ==
    /\ phase = "build"
    /\ cfg \in TrajConfigs
    /\ Diagnoses \in [PIDs -> DiagLists]
    /\ \A p \in PIDs : p + 1 \in PIDs =>
          ListCode(Diagnoses[p]) <= ListCode(Diagnoses[p + 1])
    /\ LET supported == SupportedCells(Diagnoses, cfg.minTime, cfg.maxTime)
       IN  \E rejected \in {r \in SUBSET supported : Cardinality(r) <= MaxRejected} :
          /\ DxDPatients = [d1 \in DIDs |-> [d2 \in DIDs |->
                IF <<d1, d2>> \in supported \ rejected
                THEN FollowedBy(Diagnoses, d1, d2, cfg.minTime, cfg.maxTime)
                ELSE <<>>]]
          /\ DxDRR = [d1 \in DIDs |-> [d2 \in DIDs |->
                IF <<d1, d2>> \in supported \ rejected THEN 2 * RRUnit ELSE RRUnit]]
    /\ SearchIdle
    /\ PersistIdle
    /\ CohortIdle
    /\ RiskIdle
    /\ ClusterIdle
    /\ KernelIdle

-----------------------------------------------------------------------------
(* BuildTrajectories *)

\* exp.NofDiagnosisCodes: the size of the matrices
NofDiagnosisCodes == Cardinality(DOMAIN DxDRR)

\* lines 857-874: select the pairs, build the seed stack, start the workers
BuildStart ==
    /\ phase = "build"
    /\ ~selectPanics(DxDPatients, DxDRR, NofDiagnosisCodes, cfg.minPatients, cfg.minRR)
    /\ LET pairs == selectDiagnosisPairs(DxDPatients, DxDRR, NofDiagnosisCodes,
                                         cfg.minPatients, cfg.minRR)
           n == Len(pairs)
           seeds == [i \in 1..n |-> SeedTrajectory(Diagnoses, DxDPatients, pairs[i],
                                                   cfg.minTime, cfg.maxTime)]
           cap == AppendCap(n, 0)
           batches == IF n = 0 THEN 1 ELSE IF MaxThreads > n THEN n ELSE MaxThreads
           ranges == RangeSplit(0, n, batches)
       IN  /\ Pairs' = pairs
           /\ heap' = [heap EXCEPT ![0] = seeds]
           /\ stack' = [i \in 1..cap |-> IF i <= n THEN <<0, i>> ELSE NilPtr]
           /\ wk' = [w \in Workers |->
                       IF w <= Len(ranges)
                       THEN [IdleWorker EXCEPT !.lo = ranges[w][1], !.hi = ranges[w][2],
                                               !.pc = "pop"]
                       ELSE IdleWorker]
    /\ phase' = "search"
    /\ UNCHANGED <<cfg, Diagnoses, DxDRR, DxDPatients, Trajectories, filters>>
    /\ UNCHANGED <<persistVars, cohortVars, riskVars, clusterVars, kernelVars>>

Pop_NoBreak(w) ==
    /\ phase = "search"
    /\ wk[w].pc = "pop"
    /\ IF Len(LStack(w)) = 0
       THEN wk' = wk
       ELSE wk' = [wk EXCEPT ![w].cur = LStack(w)[1],
                             ![w].lo = IF wk[w].private THEN @ ELSE @ + 1,
                             ![w].lstack = IF wk[w].private THEN Tail(@) ELSE @,
                             ![w].k = 1, ![w].ctr = 0, ![w].pc = "ext"]
    /\ UNCHANGED <<phase, cfg, Diagnoses, DxDRR, DxDPatients, Pairs, heap, stack,
                   Trajectories, filters>>
    /\ UNCHANGED <<persistVars, cohortVars, riskVars, clusterVars, kernelVars>>

\* lines 879-886: leave the loop on an empty lstack, else take lstack[0]
Pop(w) ==
    /\ phase = "search"
    /\ wk[w].pc = "pop"
    /\ IF Len(LStack(w)) = 0
       THEN wk' = [wk EXCEPT ![w].pc = "done"]
       ELSE wk' = [wk EXCEPT ![w].cur = LStack(w)[1],
                             ![w].lo = IF wk[w].private THEN @ ELSE @ + 1,
                             ![w].lstack = IF wk[w].private THEN Tail(@) ELSE @,
                             ![w].k = 1, ![w].ctr = 0, ![w].pc = "ext"]
    /\ UNCHANGED <<phase, cfg, Diagnoses, DxDRR, DxDPatients, Pairs, heap, stack,
                   Trajectories, filters>>
    /\ UNCHANGED <<persistVars, cohortVars, riskVars, clusterVars, kernelVars>>

\* lines 887-923: the loop over the pairs for the popped trajectory, up to
\* its next append to lstack; at the end of the pairs, the finalization.
\* append(lstack, newT) writes the slot after the window when the backing
\* array has room there, and moves lstack to a new array otherwise.
Extend(w) ==
    /\ phase = "search"
    /\ wk[w].pc = "ext"
    /\ LET cur == wk[w].cur
           currentT == Deref(heap, cur)
           acc == pairLoop(Diagnoses, DxDPatients, Pairs, currentT,
                           [k |-> wk[w].k, tm |-> currentT.TrajMap, ctr |-> wk[w].ctr,
                            final |-> <<>>, pushed |-> <<>>])
           heap1 == [heap EXCEPT ![cur[1]][cur[2]].TrajMap = acc.tm]
           base == Len(heap1[w])
           alloc == acc.final \o acc.pushed
           finalPtrs == [i \in 1..Len(acc.final) |-> <<w, base + i>>]
           pushPtr == <<w, base + Len(alloc)>>
           inPlace == ~wk[w].private /\ wk[w].hi < Len(stack)
       IN  /\ heap' = [heap1 EXCEPT ![w] = @ \o alloc]
           /\ IF acc.pushed # <<>>
              THEN /\ stack' = IF inPlace THEN [stack EXCEPT ![wk[w].hi + 1] = pushPtr]
                               ELSE stack
                   /\ wk' = [wk EXCEPT
                         ![w].k = acc.k, ![w].ctr = acc.ctr,
                         ![w].ltrajectories = @ \o finalPtrs,
                         ![w].hi = IF inPlace THEN @ + 1 ELSE @,
                         ![w].private = ~inPlace,
                         ![w].lstack = IF inPlace THEN @ ELSE Append(LStack(w), pushPtr)]
              ELSE /\ stack' = stack
                   /\ wk' = [wk EXCEPT
                         ![w].k = acc.k, ![w].ctr = acc.ctr,
                         ![w].ltrajectories =
                             IF FinalizeCurrent(acc.ctr, Len(currentT.Diagnoses),
                                                cfg.minLength)
                             THEN (@ \o finalPtrs) \o <<cur>>
                             ELSE @ \o finalPtrs,
                         ![w].pc = "pop"]
    /\ UNCHANGED <<phase, cfg, Diagnoses, DxDRR, DxDPatients, Pairs, Trajectories, filters>>
    /\ UNCHANGED <<persistVars, cohortVars, riskVars, clusterVars, kernelVars>>

RECURSIVE JoinResults(_, _)
JoinResults(h, w) ==
    IF w > MaxThreads THEN <<>>
    ELSE [i \in 1..Len(wk[w].ltrajectories) |-> Deref(h, wk[w].ltrajectories[i])]
         \o JoinResults(h, w + 1)

\* Trajectory filters.  getTrajectoryFilter gives the identity filter, or a
\* filter that keeps a trajectory having at least one diagnosis in a set of
\* related codes (CancerTrajectoryFilter, BladderCancerTrajectoryFilter).
IdFilter == [kind |-> "id", related |-> {}]

RelatedFilter(related) == [kind |-> "related", related |-> related]

ApplyFilter(f, t) ==
    IF f.kind = "id" THEN TRUE
    ELSE \E i \in 1..Len(t.Diagnoses) : t.Diagnoses[i] \in f.related

TrajectoryFilters == {IdFilter} \cup {RelatedFilter({d}) : d \in DIDs}

RECURSIVE SeqsUpTo(_, _)
SeqsUpTo(S, n) ==
    IF n = 0 THEN {<<>>}
    ELSE LET shorter == SeqsUpTo(S, n - 1)
         IN  shorter \cup {Append(s, x) : s \in shorter, x \in S}

TrajectoryFilterLists == SeqsUpTo(TrajectoryFilters, MaxFilters)

RECURSIVE keep(_, _)

keep_SomeFilter(traj, fs) ==
    fs = <<>> \/ \E i \in 1..Len(fs) : ApplyFilter(fs[i], traj)

\* lines 938-944: keep stays true until a filter returns false
keep(traj, fs) ==
    IF fs = <<>> THEN TRUE
    ELSE IF ~ApplyFilter(Head(fs), traj) THEN FALSE
    ELSE keep(traj, Tail(fs))

\* lines 936-949: the kept trajectories, appended in the order of the input
RECURSIVE filteredTrajectories(_, _)
filteredTrajectories(trajectories, fs) ==
    IF trajectories = <<>> THEN <<>>
    ELSE (IF keep(Head(trajectories), fs) THEN <<Head(trajectories)>> ELSE <<>>)
         \o filteredTrajectories(Tail(trajectories), fs)

\* lines 926-952: join the workers' lists, apply the filters, store the
\* result.  The filter list is an argument of BuildTrajectories that nothing
\* reads before line 939, so its value is drawn here.
Join ==
    /\ phase = "search"
    /\ \A w \in Workers : wk[w].pc = "done"
    /\ \E fs \in TrajectoryFilterLists :
          /\ filters' = fs
          /\ Trajectories' = filteredTrajectories(JoinResults(heap, 1), fs)
    /\ phase' = "done"
    /\ UNCHANGED <<cfg, Diagnoses, DxDRR, DxDPatients, Pairs, heap, stack, wk>>
    /\ UNCHANGED <<persistVars, cohortVars, riskVars, clusterVars, kernelVars>>

TrajNext ==
    \/ BuildStart
    \/ \E w \in Workers : Pop(w)
    \/ \E w \in Workers : Extend(w)
    \/ Join

SpecTraj == TrajInit /\ [][TrajNext]_vars

\* the runs in which the RR engine stored every supported cell, with
\* --minPatients 0, --minTrajectoryLength 2 and --minYears 0
FairInit ==
    /\ TrajInit
    /\ cfg.minPatients = 0 /\ cfg.minLength = 2 /\ cfg.minTime = 0
    /\ \A c \in SupportedCells(Diagnoses, cfg.minTime, cfg.maxTime) :
          DxDRR[c[1]][c[2]] > RRUnit

\* parallel.RangeReduce runs every range in a goroutine of its own and waits
\* for all of them: a worker that can take a step takes it in the end
SpecTrajFair ==
    /\ FairInit
    /\ [][TrajNext]_vars
    /\ \A w \in Workers : WF_vars(Pop(w) \/ Extend(w))

-----------------------------------------------------------------------------
(* Reference search: the result of the RangeReduce body on a stack of its   *)
(* own, where no other worker can touch its lstack.                         *)

\* all passes of the pair loop for one popped trajectory
RECURSIVE drainPairs(_, _, _, _)
drainPairs(currentT, acc, pushes, finals) ==
    LET r == pairLoop(Diagnoses, DxDPatients, Pairs, currentT, acc)
    IN  IF r.pushed # <<>>
        THEN drainPairs(currentT, [r EXCEPT !.pushed = <<>>, !.final = <<>>],
                        pushes \o r.pushed, finals \o r.final)
        ELSE [pushes |-> pushes, finals |-> finals \o r.final, ctr |-> r.ctr,
              tm |-> r.tm]

RECURSIVE searchAlone(_, _)
searchAlone(lstack, ltrajectories) ==
    IF lstack = <<>> THEN ltrajectories
    ELSE LET currentT == Head(lstack)
             r == drainPairs(currentT, [k |-> 1, tm |-> currentT.TrajMap, ctr |-> 0,
                                        final |-> <<>>, pushed |-> <<>>], <<>>, <<>>)
             own == IF FinalizeCurrent(r.ctr, Len(currentT.Diagnoses), cfg.minLength)
                    THEN <<[currentT EXCEPT !.TrajMap = r.tm]>> ELSE <<>>
         IN  searchAlone(Tail(lstack) \o r.pushes, (ltrajectories \o r.finals) \o own)

RECURSIVE searchRanges(_, _)
searchRanges(ranges, i) ==
    IF i > Len(ranges) THEN <<>>
    ELSE searchAlone(SubSeq(heap[0], ranges[i][1] + 1, ranges[i][2]), <<>>)
         \o searchRanges(ranges, i + 1)

ReferenceTrajectories ==
    LET n == Len(Pairs)
        batches == IF n = 0 THEN 1 ELSE IF MaxThreads > n THEN n ELSE MaxThreads
    IN  searchRanges(RangeSplit(0, n, batches), 1)

\* what the output files show of a trajectory
Shown(t) == [Diagnoses |-> t.Diagnoses, PatientNumbers |-> t.PatientNumbers]

CountIn(x, ts) == Cardinality({i \in 1..Len(ts) : Shown(ts[i]) = x})

SameCollection(ts1, ts2) ==
    /\ Len(ts1) = Len(ts2)
    /\ \A i \in 1..Len(ts1) : CountIn(Shown(ts1[i]), ts1) = CountIn(Shown(ts1[i]), ts2)

-----------------------------------------------------------------------------
(* Properties of BuildTrajectories *)

\* the diagnosis list has T[j], T[j+1], ... at increasing positions after
\* prev, each within the window of the one matched before it
RECURSIVE MatchesFrom(_, _, _, _, _, _)
MatchesFrom(diags, T, j, prev, minTime, maxTime) ==
    IF j > Len(T) THEN TRUE
    ELSE \E i \in (prev + 1)..Len(diags) :
            /\ diags[i].DID = T[j]
            /\ j > 1 => InWindow(DiagnosisDateToFloat(diags[i].Date)
                                   - DiagnosisDateToFloat(diags[prev].Date),
                                 minTime, maxTime)
            /\ MatchesFrom(diags, T, j + 1, i, minTime, maxTime)

HasTrajectory(diags, T, minTime, maxTime) == MatchesFrom(diags, T, 1, 0, minTime, maxTime)

\* C1: every patient of the final step of an emitted trajectory has the
\* trajectory's diagnoses in order, each consecutive gap within
\* [minTime, maxTime].
C1_FinalPatientsFollowTrajectory ==
    phase = "done" =>
        \A i \in 1..Len(Trajectories) :
            \A p \in Range(Last(Trajectories[i].Patients)) :
                HasTrajectory(Diagnoses[p], Trajectories[i].Diagnoses,
                              cfg.minTime, cfg.maxTime)

\* C2: every emitted trajectory has between minLength and maxLength
\* diagnoses.
C2_LengthWithinBounds ==
    phase = "done" =>
        \A i \in 1..Len(Trajectories) :
            /\ cfg.minLength <= Len(Trajectories[i].Diagnoses)
            /\ Len(Trajectories[i].Diagnoses) <= cfg.maxLength

\* C3: no worker writes into a slot of the seed stack that belongs to
\* another worker's range: every seed slot keeps its seed.
C3_SeedSlotsKeepTheirSeed ==
    phase \in {"search", "done"} =>
        \A i \in 1..Len(Pairs) : stack[i] = <<0, i>>

\* C4: the emitted collection (diagnosis sequences with their counts) is the
\* same under every interleaving of the workers, hence equal to the one of
\* the run in which every worker searches undisturbed.
C4_SameResultForEveryInterleaving ==
    phase = "done" =>
        SameCollection(Trajectories, filteredTrajectories(ReferenceTrajectories, filters))

\* C8: every recorded transition count is at least minPatients and is the
\* size of the patient set stored for that step.
C8_CountsAreSupported ==
    \A w \in Workers : \A i \in 1..Len(wk[w].ltrajectories) :
        LET t == Deref(heap, wk[w].ltrajectories[i])
        IN  /\ Len(t.PatientNumbers) = Len(t.Patients)
            /\ \A s \in 1..Len(t.PatientNumbers) :
                  /\ t.PatientNumbers[s] >= cfg.minPatients
                  /\ t.PatientNumbers[s] = Cardinality(Range(t.Patients[s]))
                  /\ t.PatientNumbers[s] = Len(t.Patients[s])

\* an emitted trajectory of three diagnoses under a positive minPatients
C8_Witness ==
    /\ phase = "done"
    /\ cfg.minPatients > 0
    /\ \E i \in 1..Len(Trajectories) : Len(Trajectories[i].PatientNumbers) = 2

\* 0-based position, in the full diagnosis list, of the first b after the
\* first a whose gap to that a lies in the window
MatchPosition(diags, a, b, minTime, maxTime) ==
    LET posA == CHOOSE i \in 1..Len(diags) :
                    diags[i].DID = a /\ \A j \in 1..(i - 1) : diags[j].DID # a
        cand == {j \in (posA + 1)..Len(diags) :
                    /\ diags[j].DID = b
                    /\ InWindow(DiagnosisDateToFloat(diags[j].Date)
                                  - DiagnosisDateToFloat(diags[posA].Date),
                                minTime, maxTime)}
    IN  (CHOOSE j \in cand : \A x \in cand : j <= x) - 1

\* the seeds are built and no worker has taken one yet
SeedsFresh == phase = "search" /\ \A w \in Workers : wk[w].cur = NilPtr

\* C24: for every seed trajectory [a,b] and every supporting patient p, the
\* working-map entry for p is the position, in p's full diagnosis list, of
\* the b occurrence that matched a->b (the first b after p's first a whose
\* gap lies in the window), the position the next extension starts from.
C24_SeedMapHoldsMatchPosition ==
    SeedsFresh =>
        \A i \in 1..Len(Pairs) :
            LET t == heap[0][i]
            IN  /\ DOMAIN t.TrajMap = Range(DxDPatients[Pairs[i].First][Pairs[i].Second])
                /\ \A p \in DOMAIN t.TrajMap :
                      t.TrajMap[p] = MatchPosition(Diagnoses[p], Pairs[i].First,
                                                   Pairs[i].Second, cfg.minTime, cfg.maxTime)

\* C19: after BuildTrajectories has filtered the collected trajectories, the
\* retained trajectories carry the pairwise distinct identifiers 0, 1, ...,
\* n-1 in list order.
C19_IdentifiersAreDense ==
    phase = "done" => \A i \in 1..Len(Trajectories) : Trajectories[i].ID = i - 1

\* the trajectories as collected, before the filters (the joined result of
\* line 934)
Collected == JoinResults(heap, 1)

PassesAll(t) == \A i \in 1..Len(filters) : ApplyFilter(filters[i], t)

\* C20: BuildTrajectories stores on the experiment exactly those collected
\* trajectories for which every supplied filter returns true, in their
\* collection order; with an empty filter list nothing is removed.
C20_RetainedPassEveryFilter ==
    phase = "done" =>
        /\ Trajectories = SelectSeq(Collected, PassesAll)
        /\ filters = <<>> => Trajectories = Collected

\* two filters, a collected trajectory that passes one filter only and is
\* removed, and two trajectories that pass both and are retained
C20_Witness ==
    /\ phase = "done"
    /\ Len(filters) = 2
    /\ \E i \in 1..Len(Collected) :
          /\ ApplyFilter(filters[1], Collected[i])
          /\ ~ApplyFilter(filters[2], Collected[i])
    /\ Len(Trajectories) >= 2
    /\ Len(Trajectories) < Len(Collected)

-----------------------------------------------------------------------------
(* BuildTrajectories on chains: four diagnosis codes, every patient with   *)
(* two or more of them in ascending order, one per year.                    *)

ChainDiag == 4

ChainDIDs == 0..(ChainDiag - 1)

ChainLists ==
    {DiagListOf(s) : s \in {t \in UNION {[1..n -> ChainDIDs] : n \in 2..ChainDiag} :
                              \A i, j \in 1..Len(t) : i < j => t[i] < t[j]}}

\* the RR engine stored every supported cell
ChainInit ==
    /\ phase = "build"
    /\ cfg \in TrajConfigs
    /\ Diagnoses \in [PIDs -> ChainLists]
    /\ \A p \in PIDs : p + 1 \in PIDs =>
          ListCode(Diagnoses[p]) <= ListCode(Diagnoses[p + 1])
    /\ DxDPatients = [d1 \in ChainDIDs |-> [d2 \in ChainDIDs |->
          FollowedBy(Diagnoses, d1, d2, cfg.minTime, cfg.maxTime)]]
    /\ DxDRR = [d1 \in ChainDIDs |-> [d2 \in ChainDIDs |->
          IF FollowedBy(Diagnoses, d1, d2, cfg.minTime, cfg.maxTime) # <<>>
          THEN 2 * RRUnit ELSE RRUnit]]
    /\ SearchIdle
    /\ PersistIdle
    /\ CohortIdle
    /\ RiskIdle
    /\ ClusterIdle
    /\ KernelIdle

SpecChain == ChainInit /\ [][TrajNext]_vars

\* the trajectory objects made by extension (those of the workers' arenas)
Extensions == UNION {{<<w, i>> : i \in 1..Len(heap[w])} : w \in Workers}

\* the seed an extension of three diagnoses was made from
SeedOf(x) == CHOOSE i \in 1..Len(Pairs) :
                 <<Pairs[i].First, Pairs[i].Second>> = SubSeq(x.Diagnoses, 1, 2)

\* the survivors of extending a seed by c, from the seed's own working map
OwnSurvivors(i, c) ==
    DOMAIN extendTrajectory(Diagnoses,
               SeedTrajectory(Diagnoses, DxDPatients, Pairs[i],
                              cfg.minTime, cfg.maxTime).TrajMap,
               c, cfg.minTime, cfg.maxTime)

\* C25: extension attempts from the same parent trajectory are independent:
\* the survivors and support count of the extension by c are computed from
\* the parent's own working map, whatever other extensions of that parent
\* were made before and whatever the order of the pairs; and creating an
\* extension leaves the parent's diagnoses, counts, patient sets and working
\* map unchanged.  (Stated for the extensions of seeds, whose own working
\* map is the one of the seeding loop.)
C25_ExtensionsAreIndependent ==
    /\ [](phase \in {"search", "done"} =>
             \A ptr \in Extensions :
                 LET x == Deref(heap, ptr)
                 IN  Len(x.Diagnoses) = 3 =>
                        /\ Range(Last(x.Patients)) = OwnSurvivors(SeedOf(x), x.Diagnoses[3])
                        /\ Last(x.PatientNumbers)
                              = Cardinality(OwnSurvivors(SeedOf(x), x.Diagnoses[3])))
    /\ [][\A a \in 0..MaxThreads : \A i \in 1..Len(heap[a]) :
              heap'[a][i] = heap[a][i]]_vars

PairSelected(a, b) ==
    \E i \in 1..Len(Pairs) : Pairs[i] = [First |-> a, Second |-> b]

\* C27: the search keeps extending beyond three diagnoses: if (a,b), (b,c),
\* (c,d) are selected pairs, more than minPatients patients have a, b, c, d
\* in that order with every consecutive gap in [minTime, maxTime], and
\* maxLength >= 4, then BuildTrajectories emits a trajectory whose first
\* four diagnoses are a, b, c, d.
C27_ChainOfFourIsEmitted ==
    phase = "done" =>
        \A a, b, c, d \in ChainDIDs :
            (/\ PairSelected(a, b) /\ PairSelected(b, c) /\ PairSelected(c, d)
             /\ Cardinality({p \in PIDs :
                    HasTrajectory(Diagnoses[p], <<a, b, c, d>>,
                                  cfg.minTime, cfg.maxTime)}) > cfg.minPatients
             /\ cfg.maxLength >= 4)
            => \E i \in 1..Len(Collected) :
                  /\ Len(Collected[i].Diagnoses) >= 4
                  /\ SubSeq(Collected[i].Diagnoses, 1, 4) = <<a, b, c, d>>

\* the trajectory objects appended to some worker's ltrajectories
Emitted == UNION {Range(wk[w].ltrajectories) : w \in Workers}

\* x was made from t by appending one diagnosis
IsExtensionOf(x, t) ==
    /\ Len(x.Diagnoses) = Len(t.Diagnoses) + 1
    /\ SubSeq(x.Diagnoses, 1, Len(t.Diagnoses)) = t.Diagnoses

\* C26 as stated: a trajectory shorter than maxLength is emitted only if
\* none of its extensions survived: whenever some extension of it has enough
\* supporting patients, be it emitted at maxLength or pushed for further
\* search, the trajectory itself is not emitted.
C26_EmittedOnlyWithoutSurvivingExtension ==
    \A ptr \in Emitted :
        Len(Deref(heap, ptr).Diagnoses) < cfg.maxLength =>
            ~\E x \in Extensions : IsExtensionOf(Deref(heap, x), Deref(heap, ptr))

\* C26: a trajectory shorter than maxLength is emitted only if none of its
\* extensions was pushed for further search: whenever some extension of it
\* with enough supporting patients is shorter than maxLength, the trajectory
\* itself is not emitted.  (An extension that reaches maxLength is emitted
\* and does not count.)
C26_EmittedOnlyWithoutPushedExtension ==
    \A ptr \in Emitted :
        Len(Deref(heap, ptr).Diagnoses) < cfg.maxLength =>
            ~\E x \in Extensions :
                /\ IsExtensionOf(Deref(heap, x), Deref(heap, ptr))
                /\ Len(Deref(heap, x).Diagnoses) < cfg.maxLength

\* the search is over; a seed with a pushed extension was not emitted, and
\* a seed without extension was
C26_Witness ==
    /\ phase = "done"
    /\ \E i \in 1..Len(heap[0]) :
          /\ <<0, i>> \notin Emitted
          /\ \E x \in Extensions :
                /\ IsExtensionOf(Deref(heap, x), heap[0][i])
                /\ Len(Deref(heap, x).Diagnoses) < cfg.maxLength
                /\ x \in Emitted
    /\ \E i \in 1..Len(heap[0]) :
          /\ <<0, i>> \in Emitted
          /\ ~\E x \in Extensions : IsExtensionOf(Deref(heap, x), heap[0][i])

\* every worker has left its loop with an empty lstack
WorklistsEmpty == \A w \in Workers : wk[w].pc = "done" /\ LStack(w) = <<>>

\* C29: BuildTrajectories terminates for every set of selected pairs, pair
\* graphs with cycles included, for every maxLength >= 2 and every split of
\* the seeds over the workers: once the workers are started, each worker's
\* worklist becomes empty in the end.
C29_EveryWorklistEmpties == (phase = "search") ~> WorklistsEmpty

\* both workers are through, the selected pairs hold a cycle a->b, b->c,
\* c->a, and a trajectory of three diagnoses was pushed and taken up again
C29_Witness ==
    /\ phase = "search"
    /\ WorklistsEmpty
    /\ Len(Pairs) >= 3
    /\ \E a, b, c \in DIDs :
          PairSelected(a, b) /\ PairSelected(b, c) /\ PairSelected(c, a)
    /\ \E x \in Extensions :
          /\ Len(Deref(heap, x).Diagnoses) < cfg.maxLength
          /\ x \in Emitted

-----------------------------------------------------------------------------
(* Pair selection on its own: selectDiagnosisPairs over RR matrices and     *)
(* pair patient lists with supports up to MaxOccurs.                        *)

PairConfigs ==
    [minPatients : 1..2, maxLength : {3}, minLength : {3},
     minTime : {TimeScale}, maxTime : {(1 + WindowYears) * TimeScale},
     minRR : {RRUnit}]

\* a cell the RR engine left untouched, or a stored one
PairCells ==
    {[n |-> 0, RR |-> RRUnit]}
    \cup [n : {1, MaxOccurs - 1, MaxOccurs}, RR : {RRUnit, 2 * RRUnit}]

PairsInit ==
    /\ phase = "select"
    /\ cfg \in PairConfigs
    /\ \E cell \in [{c \in PairDIDs \X PairDIDs : c[1] # c[2]} -> PairCells] :
          /\ DxDPatients = [d1 \in PairDIDs |-> [d2 \in PairDIDs |->
                IF d1 = d2 THEN <<>> ELSE [i \in 1..cell[<<d1, d2>>].n |-> i]]]
          /\ DxDRR = [d1 \in PairDIDs |-> [d2 \in PairDIDs |->
                IF d1 = d2 THEN RRUnit ELSE cell[<<d1, d2>>].RR]]
    /\ Diagnoses = <<>>
    /\ SearchIdle
    /\ PersistIdle
    /\ CohortIdle
    /\ RiskIdle
    /\ ClusterIdle
    /\ KernelIdle

\* lines 858-859: pairs := selectDiagnosisPairs(...); exp.Pairs = pairs
SelectPairs ==
    /\ phase = "select"
    /\ ~selectPanics(DxDPatients, DxDRR, PairDiag, cfg.minPatients, cfg.minRR)
    /\ Pairs' = selectDiagnosisPairs(DxDPatients, DxDRR, PairDiag,
                                     cfg.minPatients, cfg.minRR)
    /\ phase' = "selected"
    /\ UNCHANGED <<cfg, Diagnoses, DxDRR, DxDPatients, heap, stack, wk, Trajectories, filters>>
    /\ UNCHANGED <<persistVars, cohortVars, riskVars, clusterVars, kernelVars>>

PairsNext == SelectPairs

SpecPairs == PairsInit /\ [][PairsNext]_vars

Selected(a, b) == \E i \in 1..Len(Pairs) : Pairs[i] = [First |-> a, Second |-> b]

Meets(a, b) ==
    /\ Len(DxDPatients[a][b]) >= cfg.minPatients
    /\ DxDRR[a][b] > cfg.minRR

\* P(X >= k) < 0.05 for X ~ Binomial(n, 0.5)
TailBelow5Percent(n, k) == 20 * SumFrom(n, k, n) < Pow(2, n)

\* C6: every selected pair (a,b) has a # b, at least minPatients supporting
\* patients and an RR above minRR.
C6_SelectedPairsMeetThresholds ==
    phase = "selected" =>
        \A i \in 1..Len(Pairs) :
            /\ Pairs[i].First # Pairs[i].Second
            /\ Len(DxDPatients[Pairs[i].First][Pairs[i].Second]) >= cfg.minPatients
            /\ DxDRR[Pairs[i].First][Pairs[i].Second] > cfg.minRR

\* a selected pair whose reverse direction fails only the RR threshold
C6_Witness ==
    /\ phase = "selected"
    /\ \E i \in 1..Len(Pairs) :
          LET a == Pairs[i].First
              b == Pairs[i].Second
          IN  /\ Len(DxDPatients[b][a]) >= cfg.minPatients
              /\ DxDRR[b][a] = cfg.minRR

-----------------------------------------------------------------------------
(* Saving and loading the RR matrix and the pair patient lists.  Text is   *)
(* a sequence of ASCII codes, a file a sequence of lines.                   *)

Tab == 9
Comma == 44
Dot == 46
Zero == 48
Plus == 43
Minus == 45
LetterE == 69

\* the decimal digits of a natural number, most significant first
RECURSIVE DecimalDigits(_)
DecimalDigits(n) ==
    IF n < 10 THEN <<Zero + n>>
    ELSE Append(DecimalDigits(n \div 10), Zero + (n % 10))

\* the natural number written by a sequence of decimal digits
RECURSIVE ParseDigits(_)
ParseDigits(ds) ==
    IF ds = <<>> THEN 0
    ELSE 10 * ParseDigits(SubSeq(ds, 1, Len(ds) - 1)) + (ds[Len(ds)] - Zero)

\* Experiment.NameMap: the medical name of a diagnosis code ("D0", "D1", ..)
NameMap(d) == <<68>> \o DecimalDigits(d)

\* Patient.PIDString: the id of the patient in the input ("P1", "P2", ..)
PIDString(p) == <<80>> \o DecimalDigits(p)

\* nameMapReversed[name]; a Go map yields 0 for a missing key
nameMapReversed(name) ==
    IF \E d \in PairDIDs : NameMap(d) = name
    THEN CHOOSE d \in PairDIDs : NameMap(d) = name
    ELSE 0

\* pMap.PIDStringMap[pidString]; 0 for a missing key
PIDStringMap(pidString) ==
    IF \E p \in PIDs : PIDString(p) = pidString
    THEN CHOOSE p \in PIDs : PIDString(p) = pidString
    ELSE 0

\* pMap.PIDMap[pid]; the nil patient for a missing key
PIDMapLookup(pid) == IF pid \in PIDs THEN pid ELSE NilPatient

\* strings.Split(s, sep), also the fields of a csv record
RECURSIVE Split(_, _)
Split(s, sep) ==
    IF \A i \in 1..Len(s) : s[i] # sep THEN <<s>>
    ELSE LET i == CHOOSE i \in 1..Len(s) :
                      s[i] = sep /\ \A j \in 1..(i - 1) : s[j] # sep
         IN  <<SubSeq(s, 1, i - 1)>> \o Split(SubSeq(s, i + 1, Len(s)), sep)

\* fmt.Fprintf(file, "%s\t%s\t%s\n", a, b, c)
Line(a, b, c) == a \o <<Tab>> \o b \o <<Tab>> \o c

RECURSIVE StripZeros(_)
StripZeros(ds) ==
    IF Len(ds) > 1 /\ ds[Len(ds)] = Zero THEN StripZeros(SubSeq(ds, 1, Len(ds) - 1))
    ELSE ds

\* strconv.FormatFloat(RR, 'E', -1, 64) of RR = r/RRUnit: the shortest
\* mantissa d.ddd, then E, the sign and at least two digits of the exponent
FormatFloat(r) ==
    LET all == DecimalDigits(r * (1000 \div RRUnit))   \* RR in thousandths
        m == StripZeros(all)
        e == IF r = 0 THEN 0 ELSE Len(all) - 4
        abs == IF e < 0 THEN -e ELSE e
    IN  <<m[1]>> \o (IF Len(m) > 1 THEN <<Dot>> \o Tail(m) ELSE <<>>)
        \o <<LetterE, IF e < 0 THEN Minus ELSE Plus>>
        \o (IF abs < 10 THEN <<Zero>> ELSE <<>>) \o DecimalDigits(abs)

\* strconv.ParseFloat(s, 64) of a text in that format, in units of 1/RRUnit
ParseFloat(s) ==
    LET parts == Split(s, LetterE)
        mant == Split(parts[1], Dot)
        frac == IF Len(mant) > 1 THEN mant[2] ELSE <<>>
        m == ParseDigits(mant[1] \o frac)
        ex == parts[2]
        e == (IF ex[1] = Minus THEN -1 ELSE 1) * ParseDigits(Tail(ex))
        shift == e - Len(frac)
    IN  IF shift >= 0 THEN m * RRUnit * Pow(10, shift)
        ELSE (m * RRUnit) \div Pow(10, -shift)

\* the cells of an n x n matrix in the order of the two nested range loops
CellsInOrder(n) == [k \in 1..(n * n) |-> <<(k - 1) \div n, (k - 1) % n>>]

\* lines 709-714: one line per cell
SaveRRMatrixLines(rr, n) ==
    [k \in 1..(n * n) |->
        LET c == CellsInOrder(n)[k]
        IN  Line(NameMap(c[1]), NameMap(c[2]), FormatFloat(rr[c[1]][c[2]]))]

\* lines 731-737: the PIDStrings of a cell, separated by commas
RECURSIVE patientsField(_, _)
patientsField(ps, j) ==
    IF j > Len(ps) THEN <<>>
    ELSE PIDString(ps[j]) \o (IF j # Len(ps) THEN <<Comma>> ELSE <<>>)
         \o patientsField(ps, j + 1)

\* lines 728-741: a line for every cell of a row js with len(js) > 0
SaveDxDPatientsLines(dxdp, n) ==
    LET line(k) == LET c == CellsInOrder(n)[k]
                   IN  Line(NameMap(c[1]), NameMap(c[2]),
                            patientsField(dxdp[c[1]][c[2]], 1))
        written == SelectSeq([k \in 1..(n * n) |-> k],
                             LAMBDA k : Cardinality(DOMAIN dxdp[CellsInOrder(n)[k][1]]) > 0)
    IN  [x \in 1..Len(written) |-> line(written[x])]

\* lines 633-648: every record overwrites the cell its two names resolve to
RECURSIVE LoadRRMatrixFrom(_, _)
LoadRRMatrixFrom(rr, lines) ==
    IF lines = <<>> THEN rr
    ELSE LET record == Split(lines[1], Tab)
             d1 == nameMapReversed(record[1])
             d2 == nameMapReversed(record[2])
         IN  LoadRRMatrixFrom([rr EXCEPT ![d1][d2] = ParseFloat(record[3])],
                              Tail(lines))

\* lines 688-693: a patient appended for every piece of the third field
RECURSIVE appendPatients(_, _)
appendPatients(cell, pidStrings) ==
    IF pidStrings = <<>> THEN cell
    ELSE appendPatients(Append(cell, PIDMapLookup(PIDStringMap(pidStrings[1]))),
                        Tail(pidStrings))

\* lines 678-694
RECURSIVE LoadDxDPatientsFrom(_, _)
LoadDxDPatientsFrom(dxdp, lines) ==
    IF lines = <<>> THEN dxdp
    ELSE LET record == Split(lines[1], Tab)
             d1 == nameMapReversed(record[1])
             d2 == nameMapReversed(record[2])
         IN  LoadDxDPatientsFrom(
                 [dxdp EXCEPT ![d1][d2] = appendPatients(@, Split(record[3], Comma))],
                 Tail(lines))

MakeDxDRR(n) == [i \in 0..(n - 1) |-> [j \in 0..(n - 1) |-> RRUnit]]

MakeDxDPatients(n) == [i \in 0..(n - 1) |-> [j \in 0..(n - 1) |-> <<>>]]

\* the patient lists the RR engine stores: patients in any order, none twice
PatientLists ==
    {ps \in UNION {[1..n -> PIDs] : n \in 1..NumPatients} :
        \A i, j \in 1..Len(ps) : i # j => ps[i] # ps[j]}

\* a cell the RR engine left untouched, or a stored one (RR 0.5, 1.125, 2.5, 10)
SaveCells ==
    {[RR |-> RRUnit, ps |-> <<>>]}
    \cup [RR : {RRUnit \div 2, RRUnit + 1, 2 * RRUnit + 4, 10 * RRUnit},
          ps : PatientLists]

\* main.go 391-395 with --saveRR: the experiment after the RR engine
SaveInit ==
    /\ phase = "computed"
    /\ cfg = [saveRR |-> TRUE, loadRR |-> FALSE]
    /\ \E cell \in [{c \in PairDIDs \X PairDIDs : c[1] # c[2]} -> SaveCells] :
          /\ DxDPatients = [d1 \in PairDIDs |-> [d2 \in PairDIDs |->
                IF d1 = d2 THEN <<>> ELSE cell[<<d1, d2>>].ps]]
          /\ DxDRR = [d1 \in PairDIDs |-> [d2 \in PairDIDs |->
                IF d1 = d2 THEN RRUnit ELSE cell[<<d1, d2>>].RR]]
    /\ Diagnoses = <<>>
    /\ SearchIdle
    /\ PersistIdle
    /\ CohortIdle
    /\ RiskIdle
    /\ ClusterIdle
    /\ KernelIdle

\* main.go 397: SaveRRMatrix(exp, saveRR)
SaveRRMatrix ==
    /\ phase = "computed"
    /\ files' = [files EXCEPT !.rr = SaveRRMatrixLines(DxDRR, PairDiag)]
    /\ phase' = "rrSaved"
    /\ UNCHANGED <<cfg, Diagnoses, DxDRR, DxDPatients, savedExp, searchVars, cohortVars, riskVars, clusterVars, kernelVars>>

\* main.go 398: SaveDxDPatients(exp, saveRR.patients.csv); the run ends
SaveDxDPatients ==
    /\ phase = "rrSaved"
    /\ files' = [files EXCEPT !.patients = SaveDxDPatientsLines(DxDPatients, PairDiag)]
    /\ savedExp' = [DxDRR |-> DxDRR, DxDPatients |-> DxDPatients]
    /\ phase' = "saved"
    /\ UNCHANGED <<cfg, Diagnoses, DxDRR, DxDPatients, searchVars, cohortVars, riskVars, clusterVars, kernelVars>>

\* a later run with --loadRR on the same input: ParseTriNetXData makes the
\* matrices of the new experiment (parseData.go 917-918)
ParseForLoad ==
    /\ phase = "saved"
    /\ cfg' = [saveRR |-> FALSE, loadRR |-> TRUE]
    /\ DxDRR' = MakeDxDRR(PairDiag)
    /\ DxDPatients' = MakeDxDPatients(PairDiag)
    /\ phase' = "parsed"
    /\ UNCHANGED <<Diagnoses, persistVars, searchVars, cohortVars, riskVars, clusterVars, kernelVars>>

\* main.go 392: LoadRRMatrix(exp, loadRR)
LoadRRMatrix ==
    /\ phase = "parsed"
    /\ DxDRR' = LoadRRMatrixFrom(DxDRR, files.rr)
    /\ phase' = "rrLoaded"
    /\ UNCHANGED <<cfg, Diagnoses, DxDPatients, persistVars, searchVars, cohortVars, riskVars, clusterVars, kernelVars>>

\* main.go 393: LoadDxDPatients; lines 662-666 empty every cell first
LoadDxDPatients ==
    /\ phase = "rrLoaded"
    /\ DxDPatients' = LoadDxDPatientsFrom(MakeDxDPatients(PairDiag), files.patients)
    /\ phase' = "loaded"
    /\ UNCHANGED <<cfg, Diagnoses, DxDRR, persistVars, searchVars, cohortVars, riskVars, clusterVars, kernelVars>>

SaveNext ==
    \/ SaveRRMatrix
    \/ SaveDxDPatients
    \/ ParseForLoad
    \/ LoadRRMatrix
    \/ LoadDxDPatients

SpecSave == SaveInit /\ [][SaveNext]_vars

\* C5: after saving and loading back, every cell (d1,d2) holds the RR value
\* and the set of patients it held before saving, and a cell that was empty
\* is empty.
C5_RoundTripIsIdentity ==
    phase = "loaded" =>
        \A d1, d2 \in PairDIDs :
            /\ DxDRR[d1][d2] = savedExp.DxDRR[d1][d2]
            /\ Range(DxDPatients[d1][d2]) = Range(savedExp.DxDPatients[d1][d2])
            /\ savedExp.DxDPatients[d1][d2] = <<>> => DxDPatients[d1][d2] = <<>>

-----------------------------------------------------------------------------
(* Loading files that were not written for the experiment at hand: a run   *)
(* with --loadRR on an input whose diagnosis dictionary differs.            *)

MaxFileLines == 2

\* the names a file of an earlier run may hold: those of the experiment and
\* one that its name map does not have
FileNames == {NameMap(d) : d \in 0..PairDiag}

KnownName(name) == \E d \in PairDIDs : NameMap(d) = name

\* well-formed RR files: three fields, the third a float (RR 0.5 or 2.5)
RRFiles ==
    LET lines == {Line(n1, n2, FormatFloat(r)) :
                     n1 \in FileNames, n2 \in FileNames,
                     r \in {RRUnit \div 2, 2 * RRUnit + 4}}
    IN  UNION {[1..n -> lines] : n \in 0..MaxFileLines}

\* well-formed patient files of at most one line, the patients known
PatientFiles ==
    LET lines == {Line(n1, n2, patientsField(ps, 1)) :
                     n1 \in FileNames, n2 \in FileNames, ps \in PatientLists}
    IN  UNION {[1..n -> lines] : n \in 0..1}

\* main.go 388-391: the experiment is parsed, the files of --loadRR exist
LoadInit ==
    /\ phase = "parsed"
    /\ cfg = [saveRR |-> FALSE, loadRR |-> TRUE]
    /\ DxDRR = MakeDxDRR(PairDiag)
    /\ DxDPatients = MakeDxDPatients(PairDiag)
    /\ Diagnoses = <<>>
    /\ savedExp = <<>>
    /\ \E rr \in RRFiles, ps \in PatientFiles : files = [rr |-> rr, patients |-> ps]
    /\ SearchIdle
    /\ CohortIdle
    /\ RiskIdle
    /\ ClusterIdle
    /\ KernelIdle

LoadNext ==
    \/ LoadRRMatrix
    \/ LoadDxDPatients

SpecLoad == LoadInit /\ [][LoadNext]_vars

\* the records of a file that name a diagnosis the name map does not have
UnknownRecords(lines) ==
    {k \in 1..Len(lines) :
        LET record == Split(lines[k], Tab)
        IN  ~KnownName(record[1]) \/ ~KnownName(record[2])}

\* C21: loading an RR file (or its companion patients file) that contains a
\* diagnosis name absent from the experiment's name map is a fatal error: the
\* load does not complete, and no RR or patient-list cell is overwritten
\* with that record's data.
C21_UnknownNameIsFatal ==
    /\ phase \in {"rrLoaded", "loaded"} =>
          /\ UnknownRecords(files.rr) = {}
          /\ \A d1, d2 \in PairDIDs :
                DxDRR[d1][d2] # RRUnit =>
                    \E k \in 1..Len(files.rr) :
                        LET record == Split(files.rr[k], Tab)
                        IN  record[1] = NameMap(d1) /\ record[2] = NameMap(d2)
    /\ phase = "loaded" =>
          /\ UnknownRecords(files.patients) = {}
          /\ \A d1, d2 \in PairDIDs :
                DxDPatients[d1][d2] # <<>> =>
                    \E k \in 1..Len(files.patients) :
                        LET record == Split(files.patients[k], Tab)
                        IN  record[1] = NameMap(d1) /\ record[2] = NameMap(d2)

-----------------------------------------------------------------------------
(* The filter flags: --pfilters and --tfilters are comma-separated lists   *)
(* of tokens that main turns into filter functions.                         *)

MaxTokens == 2

\* the cases of the switch in getPatientFilter: the token and the filter
\* constructor whose result is returned for it
PatientFilterCases ==
    <<
      <<<<105, 100>>, "id">>,                         \* "id"
      <<<<97, 103, 101, 55, 48, 43>>, "AboveSeventyAggregator">>,  \* "age70+"
      <<<<97, 103, 101, 55, 48, 45>>, "LessThanSeventyAggregator">>,  \* "age70-"
      <<<<109, 97, 108, 101>>, "FemaleFilter">>,      \* "male"
      <<<<102, 101, 109, 97, 108, 101>>, "MaleFilter">>,  \* "female"
      <<<<84, 97>>, "TaStageAggregator">>,            \* "Ta"
      <<<<84, 49>>, "T1StageAggregator">>,            \* "T1"
      <<<<84, 105, 115>>, "TisStageAggregator">>,     \* "Tis"
      <<<<84, 50>>, "T2StageAggregator">>,            \* "T2"
      <<<<84, 51>>, "T3StageAggregator">>,            \* "T3"
      <<<<84, 52>>, "T4StageAggregator">>,            \* "T4"
      <<<<78, 48>>, "N0StageAggregator">>,            \* "N0"
      <<<<78, 49>>, "N1StageAggregator">>,            \* "N1"
      <<<<78, 50>>, "N2StageAggregator">>,            \* "N2"
      <<<<78, 51>>, "N3StageAggregator">>,            \* "N3"
      <<<<77, 48>>, "M0StageAggregator">>,            \* "M0"
      <<<<77, 49>>, "M1StageAggregator">>,            \* "M1"
      <<<<69, 79, 73, 45>>, "EOIAfterFilter">>,       \* "EOI-"
      <<<<69, 79, 73, 43>>, "EOIBeforeFilter">>,      \* "EOI+"
      <<<<77, 73, 66, 67>>, "MIBCAggregator">>,       \* "MIBC"
      <<<<78, 77, 73, 66, 67>>, "NMIBCAggregator">>,  \* "NMIBC"
      <<<<109, 85, 67>>, "MUCAggregator">>            \* "mUC"
    >>

\* the cases of the switch in getTrajectoryFilter
TrajectoryFilterCases ==
    <<
      <<<<110, 101, 111, 112, 108, 97, 115, 109>>, "CancerTrajectoryFilter">>,  \* "neoplasm"
      <<<<98, 99>>, "BladderCancerTrajectoryFilter">>                     \* "bc"
    >>

\* the filter of the first case whose token is s, the identity filter of
\* the default branch when there is none
filterOfToken(cases, s) ==
    IF \E i \in 1..Len(cases) : cases[i][1] = s
    THEN [kind |-> cases[CHOOSE i \in 1..Len(cases) : cases[i][1] = s][2]]
    ELSE [kind |-> "id"]

\* main.go 179-229
getPatientFilter(s) == filterOfToken(PatientFilterCases, s)

\* main.go 241-251; "id" has no case of its own and is served by default
getTrajectoryFilter(s) == filterOfToken(TrajectoryFilterCases, s)

\* main.go 232-238 and 253-260: a filter for every piece of the flag
getPatientFilters(f) ==
    LET fs == Split(f, Comma) IN [i \in 1..Len(fs) |-> getPatientFilter(fs[i])]

getTrajectoryFilters(f) ==
    LET fs == Split(f, Comma) IN [i \in 1..Len(fs) |-> getTrajectoryFilter(fs[i])]

\* tokens the usage text of main lists for --pfilters and --tfilters, and
\* tokens it does not: "T0" is listed but has no case, "xx" is not listed
PatientTokens ==
    {PatientFilterCases[i][1] : i \in 1..Len(PatientFilterCases)}
    \cup {<<84, 48>>, <<120, 120>>}

TrajectoryTokens ==
    {TrajectoryFilterCases[i][1] : i \in 1..Len(TrajectoryFilterCases)}
    \cup {<<105, 100>>, <<120, 120>>}

\* the values of a flag: one to MaxTokens tokens joined by commas
RECURSIVE FlagValues(_, _)
FlagValues(tokens, n) ==
    IF n = 1 THEN tokens
    ELSE LET shorter == FlagValues(tokens, n - 1)
         IN  shorter \cup {v \o <<Comma>> \o t : v \in shorter, t \in tokens}

\* main.go 326-330: the two flags as given on the command line
FlagsInit ==
    /\ phase = "flags"
    /\ \E p \in FlagValues(PatientTokens, MaxTokens),
          t \in FlagValues(TrajectoryTokens, MaxTokens) :
          cfg = [pfilters |-> p, tfilters |-> t]
    /\ filters = [patient |-> <<>>, trajectory |-> <<>>]
    /\ Diagnoses = <<>> /\ DxDRR = <<>> /\ DxDPatients = <<>>
    /\ Pairs = <<>>
    /\ heap = [a \in 0..MaxThreads |-> <<>>]
    /\ stack = <<>>
    /\ wk = [w \in Workers |-> IdleWorker]
    /\ Trajectories = <<>>
    /\ PersistIdle
    /\ CohortIdle
    /\ RiskIdle
    /\ ClusterIdle
    /\ KernelIdle

\* main.go 388-389: the patient filters are made for ParseTriNetXData
GetPatientFilters ==
    /\ phase = "flags"
    /\ filters' = [filters EXCEPT !.patient = getPatientFilters(cfg.pfilters)]
    /\ phase' = "patientFilters"
    /\ UNCHANGED <<cfg, Diagnoses, DxDRR, DxDPatients, Pairs, heap, stack, wk,
                   Trajectories, persistVars, cohortVars, riskVars, clusterVars, kernelVars>>

\* main.go 405-406: the trajectory filters are made for BuildTrajectories
GetTrajectoryFilters ==
    /\ phase = "patientFilters"
    /\ filters' = [filters EXCEPT !.trajectory = getTrajectoryFilters(cfg.tfilters)]
    /\ phase' = "filtersReady"
    /\ UNCHANGED <<cfg, Diagnoses, DxDRR, DxDPatients, Pairs, heap, stack, wk,
                   Trajectories, persistVars, cohortVars, riskVars, clusterVars, kernelVars>>

FlagsNext ==
    \/ GetPatientFilters
    \/ GetTrajectoryFilters

SpecFlags == FlagsInit /\ [][FlagsNext]_vars

Recognized(cases, s) == \E i \in 1..Len(cases) : cases[i][1] = s

\* C22: a token in --pfilters or --tfilters that is not one of the
\* recognized filter names is a fatal configuration error: the run does not
\* get past the making of the filters with some filter in the token's place.
C22_UnknownTokenIsFatal ==
    /\ phase \in {"patientFilters", "filtersReady"} =>
          \A i \in 1..Len(filters.patient) :
              Recognized(PatientFilterCases, Split(cfg.pfilters, Comma)[i])
    /\ phase = "filtersReady" =>
          \A i \in 1..Len(filters.trajectory) :
              LET s == Split(cfg.tfilters, Comma)[i]
              IN  Recognized(TrajectoryFilterCases, s) \/ s = <<105, 100>>

-----------------------------------------------------------------------------
(* The event-of-interest filters (src/trajectory/filters.go 85-114): the   *)
(* patient filters behind the tokens "EOI+" and "EOI-", applied to one      *)
(* patient whose diagnosis list the parser left sorted by date.             *)

MaxEOIDiags == 3      \* most diagnoses of the filtered patient

EOIYears == 1..3

EOIDates == {[Year |-> y, Month |-> 1, Day |-> 1] : y \in EOIYears}

\* Patient.Diagnoses as SortDiagnoses leaves it: no entry before its
\* predecessor
EOIDiagLists ==
    {l \in UNION {[1..n -> [DID : 0..1, Date : EOIDates]] : n \in 0..MaxEOIDiags} :
        \A i \in 1..(Len(l) - 1) : ~DiagnosisDateSmallerThan(l[i + 1].Date, l[i].Date)}

\* "EOI-" and "EOI+"
EOITokens == {<<69, 79, 73, 45>>, <<69, 79, 73, 43>>}

\* the predicate each constructor hands to EOIFilter (lines 106-114)
eoiTest(kind, d1, d2) ==
    IF kind = "EOIBeforeFilter" THEN DiagnosisDateSmallerThan(d1, d2)
    ELSE DiagnosisDateSmallerThan(d2, d1)

\* lines 92-98: the diagnoses up to the first one the predicate holds for
RECURSIVE eoiLoop(_, _, _, _)
eoiLoop(kind, diags, eoi, newD) ==
    IF diags = <<>> THEN newD
    ELSE IF eoiTest(kind, Head(diags).Date, eoi) THEN newD
    ELSE eoiLoop(kind, Tail(diags), eoi, Append(newD, Head(diags)))

\* EOIFilter: the patient's list after the call and the value returned.
\* newD starts as an empty, non-nil slice, so the nil test never holds.
EOIFilter(kind, p) ==
    IF p.EOIDate = <<>> THEN [Diagnoses |-> p.Diagnoses, keep |-> FALSE]
    ELSE [Diagnoses |-> eoiLoop(kind, p.Diagnoses, p.EOIDate[1], <<>>), keep |-> TRUE]

\* main with --pfilters EOI+ or EOI-; EOIDate is nil or a date
EOIInit ==
    /\ phase = "flags"
    /\ \E token \in EOITokens : cfg = [pfilters |-> token]
    /\ \E l \in EOIDiagLists, e \in {<<>>} \cup {<<d>> : d \in EOIDates} :
          /\ subject = [Diagnoses |-> l, EOIDate |-> e, result |-> <<>>]
          /\ Diagnoses = <<l>>
    /\ DxDRR = <<>> /\ DxDPatients = <<>>
    /\ SearchIdle
    /\ PersistIdle
    /\ CohortIdle
    /\ RiskIdle
    /\ ClusterIdle
    /\ binom = <<>>

\* ApplyPatientFilters: the filter of the token is called on the patient
ApplyEOIFilter ==
    /\ phase = "flags"
    /\ LET r == EOIFilter(getPatientFilter(cfg.pfilters).kind, subject)
       IN  /\ Diagnoses' = <<r.Diagnoses>>
           /\ subject' = [subject EXCEPT !.result = <<r.keep>>]
    /\ phase' = "filtered"
    /\ UNCHANGED <<cfg, DxDRR, DxDPatients, searchVars, persistVars, cohortVars,
                   riskVars, clusterVars, binom>>

EOINext ==
    \/ ApplyEOIFilter

SpecEOI == EOIInit /\ [][EOINext]_vars

NotBeforeEOI(d) == ~DiagnosisDateSmallerThan(d.Date, subject.EOIDate[1])

\* C28: applying EOIBeforeFilter to a patient that has an event-of-interest
\* date and a date-sorted diagnosis list leaves the patient with exactly the
\* diagnoses whose date is not before the event-of-interest date, in their
\* original order; a patient without an event-of-interest date is rejected.
C28_KeepsDiagnosesNotBeforeEOI ==
    (phase = "filtered" /\ getPatientFilter(cfg.pfilters).kind = "EOIBeforeFilter") =>
        IF subject.EOIDate = <<>> THEN subject.result = <<FALSE>>
        ELSE Diagnoses[1] = SelectSeq(subject.Diagnoses, NotBeforeEOI)

-----------------------------------------------------------------------------
(* The binomial kernel by itself: utils.BinomialCdf(p, n, k) for rational  *)
(* p, called the way selectDiagnosisPairs calls it.                         *)

MaxTrials == 10

\* p as <<numerator, denominator>>
Probabilities == {<<1, 4>>, <<1, 2>>, <<3, 4>>}

\* sum over j = i..hi of C(n,j) * pn^j * (pd-pn)^(n-j)
RECURSIVE TermSum(_, _, _, _, _)
TermSum(pn, pd, n, i, hi) ==
    IF i > hi THEN 0
    ELSE Choose(n, i) * Pow(pn, i) * Pow(pd - pn, n - i) + TermSum(pn, pd, n, i + 1, hi)

\* betaIncomplete(a, b, x) for whole a, b >= 1 and x = pn/pd: the
\* regularized incomplete beta function I_x(a, b), which for whole arguments
\* is the sum over j = a..a+b-1 of C(a+b-1, j) x^j (1-x)^(a+b-1-j).  gammaLn
\* and the continued fraction of betaCf (eps = 3.0e-7) evaluate it in
\* floating point; the value is kept here as the exact fraction num/den.
betaIncomplete(a, b, pn, pd) ==
    [num |-> TermSum(pn, pd, a + b - 1, a, a + b - 1), den |-> Pow(pd, a + b - 1)]

BinomialCdfOf_LowerTail(pn, pd, n, k) ==
    IF k >= n THEN [panic |-> TRUE, num |-> 0, den |-> 1]
    ELSE IF k = 0 THEN [panic |-> FALSE, num |-> 1, den |-> 1]
    ELSE [panic |-> FALSE, num |-> TermSum(pn, pd, n, 0, k), den |-> Pow(pd, n)]

\* binomial.go 119-127
BinomialCdfOf(pn, pd, n, k) ==
    IF k >= n THEN [panic |-> TRUE, num |-> 0, den |-> 1]
    ELSE IF k = 0 THEN [panic |-> FALSE, num |-> 1, den |-> 1]
    ELSE LET r == betaIncomplete(k, 1 + (n - k), pn, pd)
         IN  [panic |-> FALSE, num |-> r.num, den |-> r.den]

\* a call with n trials, k events and chance p is about to be made
BinomialInit ==
    /\ phase = "binomial"
    /\ \E p \in Probabilities, n \in 1..MaxTrials, k \in 0..MaxTrials :
          binom = [p |-> p, n |-> n, k |-> k, result |-> <<>>]
    /\ cfg = <<>>
    /\ Diagnoses = <<>> /\ DxDRR = <<>> /\ DxDPatients = <<>>
    /\ SearchIdle
    /\ PersistIdle
    /\ CohortIdle
    /\ RiskIdle
    /\ abcFile = <<>> /\ dumpFile = <<>> /\ graphs = <<>>
    /\ subject = <<>>

\* the call returns its value, or log.Panic ends the run
CallBinomialCdf ==
    /\ phase = "binomial"
    /\ LET r == BinomialCdfOf(binom.p[1], binom.p[2], binom.n, binom.k)
       IN  /\ binom' = [binom EXCEPT !.result = r]
           /\ phase' = IF r.panic THEN "panicked" ELSE "returned"
    /\ UNCHANGED <<cfg, Diagnoses, DxDRR, DxDPatients, searchVars, persistVars,
                   cohortVars, riskVars, clusterVars, subject>>

BinomialNext ==
    \/ CallBinomialCdf

SpecBinomial == BinomialInit /\ [][BinomialNext]_vars

\* P(X <= k) for X ~ Binomial(n, pn/pd), in units of 1/pd^n
LowerTail(pn, pd, n, k) == TermSum(pn, pd, n, 0, k)

\* x/den and y/den differ by at most 10^-6
Within1e6(x, y, den) ==
    (IF x > y THEN x - y ELSE y - x) <= den \div Million

-----------------------------------------------------------------------------
(* Cohorts: the strata by sex and age group (InitializeCohorts,            *)
(* MergeCohorts) as ParseTriNetXData builds them for the experiment.        *)

MaxAgeGroups == 2     \* largest --nofAgeGroups
MaxYOBSpan == 2       \* largest difference between two years of birth

Male == 0
Female == 1

\* int(NaN): the result of the conversion depends on the platform (the
\* smallest integer on amd64, 0 on arm64)
IntOfNaN == {0, -2147483647}

\* parseData.go 703-709: the age group of a patient; ageRange is
\* math.Ceil((maxYOB - minYOB) / nofCohortAges), and 0/0 is NaN
CohortAges(yob, minYOB, maxYOB, nofCohortAges) ==
    LET ageRange == ((maxYOB - minYOB) + nofCohortAges - 1) \div nofCohortAges
    IN  IF nofCohortAges > 1
        THEN IF ageRange = 0 THEN IntOfNaN ELSE {(yob - minYOB) \div ageRange}
        ELSE {0}

cohortIndex(nofAgegroups, sex, ageGroup) == sex * nofAgegroups + ageGroup

\* lines 342-369
RECURSIVE makeCohortsFrom(_, _, _, _, _, _)
makeCohortsFrom(i, sex, ageGroup, region, nofAgeGroups, nofDiagnoses) ==
    LET nofCohorts == nofAgeGroups * 2
        switch == i >= nofCohorts \div 2 /\ sex # Female
        sex1 == IF switch THEN Female ELSE sex
        ageGroup1 == IF switch THEN 0 ELSE ageGroup
        region1 == IF switch THEN 0 ELSE region
        cohort == [AgeGroup |-> ageGroup1, Sex |-> sex1, Region |-> region1,
                   NofPatients |-> 0, NofDiagnoses |-> 0,
                   DCtr |-> [d \in 0..(nofDiagnoses - 1) |-> 0],
                   DPatients |-> [d \in 0..(nofDiagnoses - 1) |-> <<>>],
                   Patients |-> <<>>]
    IN  IF i >= nofCohorts THEN <<>>
        ELSE <<cohort>> \o
             (IF ageGroup1 = nofAgeGroups - 1
              THEN makeCohortsFrom(i + 1, sex1, 0, region1 + 1, nofAgeGroups, nofDiagnoses)
              ELSE makeCohortsFrom(i + 1, sex1, ageGroup1 + 1, region1, nofAgeGroups,
                                   nofDiagnoses))

\* the cohort array, indexed from 0 like the Go slice
makeCohorts(nofAgeGroups, nofDiagnoses) ==
    LET cs == makeCohortsFrom(0, Male, 0, 0, nofAgeGroups, nofDiagnoses)
    IN  [i \in 0..(Len(cs) - 1) |-> cs[i + 1]]

RECURSIVE countDiagnoses(_, _, _, _)

countDiagnoses_EveryOccurrence(cohort, patient, diagnoses, counted) ==
    IF diagnoses = <<>> THEN cohort
    ELSE LET did == diagnoses[1].DID
         IN  countDiagnoses(
                 [cohort EXCEPT !.DCtr[did] = @ + 1, !.NofDiagnoses = @ + 1,
                                !.DPatients[did] = Append(@, patient)],
                 patient, Tail(diagnoses), counted \cup {did})

\* lines 383-393: the diagnoses of one patient, each code counted once
countDiagnoses(cohort, patient, diagnoses, counted) ==
    IF diagnoses = <<>> THEN cohort
    ELSE LET did == diagnoses[1].DID
         IN  IF did \in counted
             THEN countDiagnoses(cohort, patient, Tail(diagnoses), counted)
             ELSE countDiagnoses(
                     [cohort EXCEPT !.DCtr[did] = @ + 1, !.NofDiagnoses = @ + 1,
                                    !.DPatients[did] = Append(@, patient)],
                     patient, Tail(diagnoses), counted \cup {did})

\* lines 379-394: the patients in the order the map iteration yields them
RECURSIVE placePatients(_, _, _, _, _)
placePatients(cohorts, order, pidMap, diagsOf, nofAgegroups) ==
    IF order = <<>> THEN cohorts
    ELSE LET patient == order[1]
             idx == cohortIndex(nofAgegroups, pidMap[patient].Sex,
                                pidMap[patient].CohortAge)
             cohort == [cohorts[idx] EXCEPT !.NofPatients = @ + 1,
                                            !.Patients = Append(@, patient)]
         IN  placePatients(
                 [cohorts EXCEPT ![idx] = countDiagnoses(cohort, patient,
                                                         diagsOf[patient], {})],
                 Tail(order), pidMap, diagsOf, nofAgegroups)

\* selectCohort indexes the array out of range for some patient
cohortIndexPanics(pidMap, nofAgegroups) ==
    \E p \in DOMAIN pidMap :
        cohortIndex(nofAgegroups, pidMap[p].Sex, pidMap[p].CohortAge)
            \notin 0..(2 * nofAgegroups - 1)

\* lines 747-762: cohort2 added into cohort1
mergeInto(cohort1, cohort2) ==
    [cohort1 EXCEPT
        !.NofPatients = @ + cohort2.NofPatients,
        !.NofDiagnoses = @ + cohort2.NofDiagnoses,
        !.DCtr = [i \in DOMAIN @ |-> @[i] + cohort2.DCtr[i]],
        !.DPatients = [i \in DOMAIN @ |-> @[i] \o cohort2.DPatients[i]]]

\* lines 746-765: the value of *cohorts[0] when MergeCohorts returns
RECURSIVE mergeFrom(_, _, _)
mergeFrom(cohort1, cohorts, i) ==
    IF i \notin DOMAIN cohorts THEN cohort1
    ELSE mergeFrom(mergeInto(cohort1, cohorts[i]), cohorts, i + 1)

\* the orders in which a map of patients can be iterated
Orders(S) ==
    {o \in [1..Cardinality(S) -> S] : \A i, j \in DOMAIN o : i # j => o[i] # o[j]}

SetMin(S) == CHOOSE x \in S : \A y \in S : x <= y

SetMax(S) == CHOOSE x \in S : \A y \in S : x >= y

\* the patient maps parseTriNetXPatientData can return for the patients ps:
\* sex and year of birth from the input, the age group from the birth years
PatientMaps(ps, nofCohortAges) ==
    {m \in [ps -> [Sex : {Male, Female}, YOB : 0..MaxYOBSpan,
                   CohortAge : (0..MaxAgeGroups) \cup IntOfNaN]] :
        \A p \in ps :
            m[p].CohortAge \in CohortAges(m[p].YOB, SetMin({m[q].YOB : q \in ps}),
                                          SetMax({m[q].YOB : q \in ps}),
                                          nofCohortAges)}

\* the diagnosis lists of the parsed patients: a code may occur on several
\* dates of a list
CohortDiagLists ==
    {DiagListOf(s) : s \in UNION {[1..n -> DIDs] : n \in 0..MaxDiags}}

\* parseData.go 881-909: patients and their diagnoses are parsed
CohortInit ==
    /\ phase = "patients"
    /\ \E n \in 1..MaxAgeGroups :
          /\ cfg = [nofAgeGroups |-> n]
          /\ PIDMap \in PatientMaps(PIDs, n)
    /\ Diagnoses \in [PIDs -> CohortDiagLists]
    /\ \A p \in PIDs : p + 1 \in PIDs =>
          ListCode(Diagnoses[p]) <= ListCode(Diagnoses[p + 1])
    /\ DxDRR = <<>>
    /\ DxDPatients = <<>>
    /\ Cohorts = <<>>
    /\ DPatients = <<>>
    /\ sel = <<>>
    /\ SearchIdle
    /\ PersistIdle
    /\ RiskIdle
    /\ ClusterIdle
    /\ KernelIdle

\* parseData.go 911: cohorts := InitializeCohorts(...); the run aborts when
\* the cohort index of a patient is outside the array
InitializeCohorts ==
    /\ phase = "patients"
    /\ IF cohortIndexPanics(PIDMap, cfg.nofAgeGroups)
       THEN /\ phase' = "panic"
            /\ UNCHANGED Cohorts
       ELSE /\ \E order \in Orders(PIDs) :
                  Cohorts' = placePatients(makeCohorts(cfg.nofAgeGroups, NumDiag), order,
                                           PIDMap, Diagnoses, cfg.nofAgeGroups)
            /\ phase' = "cohorts"
    /\ UNCHANGED <<cfg, Diagnoses, DxDRR, DxDPatients, PIDMap, DPatients, sel,
                   searchVars, persistVars, riskVars, clusterVars, kernelVars>>

\* parseData.go 912-927: mergedCohort := MergeCohorts(cohorts) works on
\* *cohorts[0] and returns cohorts[0]; the experiment takes its DPatients
\* and the cohort array
MergeCohorts ==
    /\ phase = "cohorts"
    /\ LET cohort1 == mergeFrom(Cohorts[0], Cohorts, 1)
       IN  /\ Cohorts' = [Cohorts EXCEPT ![0] = cohort1]
           /\ DPatients' = cohort1.DPatients
    /\ DxDRR' = MakeDxDRR(NumDiag)
    /\ DxDPatients' = MakeDxDPatients(NumDiag)
    /\ phase' = "rr"
    /\ UNCHANGED <<cfg, Diagnoses, PIDMap, sel, searchVars, persistVars, riskVars, clusterVars, kernelVars>>

CohortNext ==
    \/ InitializeCohorts
    \/ MergeCohorts

SpecCohort == CohortInit /\ [][CohortNext]_vars

\* the stratum of a patient: the cohort indexed by sex and age group
StratumOf(p) == cohortIndex(cfg.nofAgeGroups, PIDMap[p].Sex, PIDMap[p].CohortAge)

\* the patients placed in stratum c
PlacedIn(c) == {p \in DOMAIN PIDMap : StratumOf(p) = c}

\* number of positions of the list s that hold x
Occurrences(s, x) == Cardinality({i \in 1..Len(s) : s[i] = x})

\* C18: after InitializeCohorts, for every stratum and every diagnosis d, the
\* stratum's counter DCtr[d] equals the length of its patient list
\* DPatients[d], no patient occurs twice in that list, and a patient with
\* several dated occurrences of d is counted once.
C18_CountersMatchPatientLists ==
    phase = "cohorts" =>
        \A c \in DOMAIN Cohorts : \A d \in DIDs :
            LET patients == Cohorts[c].DPatients[d]
            IN  /\ Cohorts[c].DCtr[d] = Len(patients)
                /\ \A p \in PIDs : Occurrences(patients, p) <= 1
                /\ \A p \in Range(Cohorts[c].Patients) :
                      (\E i \in 1..Len(Diagnoses[p]) : Diagnoses[p][i].DID = d)
                          => Occurrences(patients, p) = 1

\* two patients of one stratum have the code d, one of them on two dates
C18_Witness ==
    /\ phase = "cohorts"
    /\ \E c \in DOMAIN Cohorts : \E d \in DIDs :
          /\ Len(Cohorts[c].DPatients[d]) = 2
          /\ \E p \in Range(Cohorts[c].DPatients[d]) :
                Cardinality({i \in 1..Len(Diagnoses[p]) : Diagnoses[p][i].DID = d}) >= 2

\* C9: when the RR engine runs (the experiment is built), each patient is in
\* the per-DID patient lists of exactly one stratum, the one of the patient's
\* sex and age group; each stratum's NofPatients is the number of patients
\* placed in it; and the strata are as InitializeCohorts made them, each
\* per-DID list and counter describing patients of the stratum only.
C9_StrataDescribeTheirOwnPatients ==
    phase = "rr" =>
        /\ \A p \in DOMAIN PIDMap : \A d \in DIDs :
              countPatientDiagnosis(Diagnoses[p], d) = 1 =>
                  {c \in DOMAIN Cohorts : p \in Range(Cohorts[c].DPatients[d])}
                      = {StratumOf(p)}
        /\ \A c \in DOMAIN Cohorts :
              /\ Cohorts[c].NofPatients = Cardinality(PlacedIn(c))
              /\ Range(Cohorts[c].Patients) = PlacedIn(c)
              /\ \A d \in DIDs :
                    /\ Range(Cohorts[c].DPatients[d]) \subseteq PlacedIn(c)
                    /\ Cohorts[c].DCtr[d] = Len(Cohorts[c].DPatients[d])

\* the years of birth of the parsed patients
ParsedYOBs == {PIDMap[p].YOB : p \in DOMAIN PIDMap}

\* C30: for every set of parsed birth years with minYOB < maxYOB and every
\* nofAgeGroups >= 1, each patient's age-bucket index satisfies
\* 0 <= CohortAge < nofAgeGroups, so that InitializeCohorts finds the stratum
\* sex*nofAgeGroups + CohortAge among the 2*nofAgeGroups allocated strata and
\* that stratum is labelled with the patient's own sex.
C30_AgeGroupWithinStrata ==
    (phase \in {"cohorts", "panic"} /\ SetMin(ParsedYOBs) < SetMax(ParsedYOBs)) =>
        /\ phase = "cohorts"
        /\ \A p \in DOMAIN PIDMap :
              /\ 0 <= PIDMap[p].CohortAge
              /\ PIDMap[p].CohortAge < cfg.nofAgeGroups
              /\ Cohorts[StratumOf(p)].Sex = PIDMap[p].Sex

-----------------------------------------------------------------------------
(* The matched control group: selectRandomPatientsFromSimilarCohorts for   *)
(* the patients exposed to a diagnosis d1, one step per visited patient.    *)

SamplePatients == 6   \* number of patients in the sampling runs

SamplePIDs == 1..SamplePatients

\* the diagnosis whose exposed patients are matched
ExposedDID == 0

maxRandSkips_IgnoringCtr(nofPatients, nofExcluded, ctr) ==
    Max2(0, nofPatients - nofExcluded)

\* line 404
maxRandSkips(nofPatients, nofExcluded, ctr) ==
    Max2(0, nofPatients - nofExcluded - ctr)

IdleSelection ==
    [patients |-> <<>>, pids |-> {}, cohortSimilar |-> <<>>, collectedPatients |-> <<>>,
     i |-> 0, ctr |-> 0, collected |-> <<>>, maxRandSkips |-> 0, j |-> 0, pc |-> "idle"]

\* The experiment when the RR engine reaches the diagnosis d1: one age group,
\* so the strata are the two sexes; a patient is diagnosed with d1 or not;
\* the patients are numbered in the order InitializeCohorts visited them.
SampleInit ==
    /\ phase = "rr"
    /\ cfg = [nofAgeGroups |-> 1]
    /\ PIDMap \in [SamplePIDs -> [Sex : {Male, Female}, YOB : {0}, CohortAge : {0}]]
    /\ Diagnoses \in [SamplePIDs -> {<<>>, DiagListOf(<<ExposedDID>>)}]
    /\ LET cohorts == placePatients(makeCohorts(1, 1), [p \in SamplePIDs |-> p],
                                    PIDMap, Diagnoses, 1)
           cohort1 == mergeFrom(cohorts[0], cohorts, 1)
       IN  /\ Cohorts = [cohorts EXCEPT ![0] = cohort1]
           /\ DPatients = cohort1.DPatients
    /\ DxDRR = MakeDxDRR(1)
    /\ DxDPatients = MakeDxDPatients(1)
    /\ sel = IdleSelection
    /\ SearchIdle
    /\ PersistIdle
    /\ RiskIdle
    /\ ClusterIdle
    /\ KernelIdle

\* lines 553-557 and 427-438: the exposed patients, their id map, and the
\* exposed patients per cohort
SelectSimilarStart ==
    /\ phase = "rr"
    /\ sel.pc = "idle"
    /\ Len(DPatients[ExposedDID]) > 0
    /\ LET patients == DPatients[ExposedDID]
           cohortOf(p) == cohortIndex(cfg.nofAgeGroups, PIDMap[p].Sex,
                                      PIDMap[p].CohortAge)
       IN  sel' = [IdleSelection EXCEPT
                     !.patients = patients,
                     !.pids = Range(patients),
                     !.cohortSimilar = [i \in DOMAIN Cohorts |->
                                           SelectSeq(patients,
                                                     LAMBDA p : cohortOf(p) = i)],
                     !.pc = "call"]
    /\ UNCHANGED <<phase, cfg, Diagnoses, DxDRR, DxDPatients, PIDMap, Cohorts, DPatients,
                   searchVars, persistVars, riskVars, clusterVars, kernelVars>>

\* lines 439-440 and 403-404: the call for the next cohort
CallSelect ==
    /\ sel.pc = "call"
    /\ sel.i \in DOMAIN Cohorts
    /\ LET ctr == Len(sel.cohortSimilar[sel.i])
       IN  sel' = [sel EXCEPT
                     !.ctr = ctr,
                     !.collected = <<>>,
                     !.maxRandSkips = maxRandSkips(Len(Cohorts[sel.i].Patients),
                                                   Cardinality(sel.pids), ctr),
                     !.j = 0,
                     !.pc = "loop"]
    /\ UNCHANGED <<phase, cfg, Diagnoses, DxDRR, DxDPatients, PIDMap, Cohorts, DPatients,
                   searchVars, persistVars, riskVars, clusterVars, kernelVars>>

\* lines 405-419: one patient of the cohort; coin is fastrand.Uint32n(2)
VisitPatient(coin) ==
    /\ sel.pc = "loop"
    /\ sel.j < Len(Cohorts[sel.i].Patients)
    /\ Len(sel.collected) # sel.ctr
    /\ LET p == Cohorts[sel.i].Patients[sel.j + 1]
       IN  sel' = IF p \in sel.pids
                  THEN [sel EXCEPT !.j = @ + 1]
                  ELSE IF sel.maxRandSkips > 0
                  THEN IF coin > 0
                       THEN [sel EXCEPT !.j = @ + 1, !.collected = Append(@, p)]
                       ELSE [sel EXCEPT !.j = @ + 1, !.maxRandSkips = @ - 1]
                  ELSE [sel EXCEPT !.j = @ + 1, !.collected = Append(@, p)]
    /\ UNCHANGED <<phase, cfg, Diagnoses, DxDRR, DxDPatients, PIDMap, Cohorts, DPatients,
                   searchVars, persistVars, riskVars, clusterVars, kernelVars>>

\* lines 406-408, 421 and 441-443: the loop ends, the collected patients of
\* the cohort are appended to the control group
ReturnSelected ==
    /\ sel.pc = "loop"
    /\ sel.j = Len(Cohorts[sel.i].Patients) \/ Len(sel.collected) = sel.ctr
    /\ sel' = [sel EXCEPT !.collectedPatients = @ \o sel.collected,
                          !.i = @ + 1,
                          !.pc = "call"]
    /\ UNCHANGED <<phase, cfg, Diagnoses, DxDRR, DxDPatients, PIDMap, Cohorts, DPatients,
                   searchVars, persistVars, riskVars, clusterVars, kernelVars>>

\* line 445: the control group is returned
ReturnCollected ==
    /\ sel.pc = "call"
    /\ sel.i \notin DOMAIN Cohorts
    /\ sel' = [sel EXCEPT !.pc = "done"]
    /\ UNCHANGED <<phase, cfg, Diagnoses, DxDRR, DxDPatients, PIDMap, Cohorts, DPatients,
                   searchVars, persistVars, riskVars, clusterVars, kernelVars>>

SampleNext ==
    \/ SelectSimilarStart
    \/ CallSelect
    \/ \E coin \in 0..1 : VisitPatient(coin)
    \/ ReturnSelected
    \/ ReturnCollected

SpecSample == SampleInit /\ [][SampleNext]_vars

\* the exposed set E: the patients diagnosed with d1
Exposed == {p \in DOMAIN PIDMap : countPatientDiagnosis(Diagnoses[p], ExposedDID) = 1}

\* stratum c holds at least |E /\ stratum| patients outside E
Feasible(c) ==
    Cardinality(PlacedIn(c) \ Exposed) >= Cardinality(PlacedIn(c) \cap Exposed)

\* C10: whatever the coin flips, the control group holds no patient of E and
\* no patient twice; of every stratum with at least |E /\ stratum| patients
\* outside E it holds exactly |E /\ stratum| patients; so its size is |E|
\* when every stratum is feasible and below |E| otherwise.
C10_MatchedControlGroup ==
    sel.pc = "done" =>
        LET control == sel.collectedPatients
        IN  /\ Range(control) \cap Exposed = {}
            /\ \A x, y \in 1..Len(control) : x # y => control[x] # control[y]
            /\ \A c \in DOMAIN Cohorts :
                  Feasible(c) =>
                      Cardinality({x \in 1..Len(control) : control[x] \in PlacedIn(c)})
                          = Cardinality(PlacedIn(c) \cap Exposed)
            /\ IF \A c \in DOMAIN Cohorts : Feasible(c)
               THEN Len(control) = Cardinality(Exposed)
               ELSE Len(control) < Cardinality(Exposed)

\* every stratum feasible, both strata exposed, and a coin flip skipped a
\* patient that sits before a collected one
C10_Witness ==
    /\ sel.pc = "done"
    /\ \A c \in DOMAIN Cohorts : Feasible(c) /\ PlacedIn(c) \cap Exposed # {}
    /\ \E p \in DOMAIN PIDMap \ Exposed : \E x \in 1..Len(sel.collectedPatients) :
          /\ p \notin Range(sel.collectedPatients)
          /\ StratumOf(p) = StratumOf(sel.collectedPatients[x])
          /\ p < sel.collectedPatients[x]

-----------------------------------------------------------------------------
(* Ingestion of the diagnosis records: parseTrinetXPatientDiagnoses appends *)
(* one Diagnosis per accepted record to its patient, in file order, and     *)
(* then sorts and compacts every patient's list.  All entries of a list     *)
(* carry the PID of the patient that owns it, so diagnosisEqual compares    *)
(* the code and the date.                                                   *)

MaxRecords == 3       \* most diagnosis records of one patient in the file

\* the dates of the records: a day of one month and an earlier day of the next
RecordDates ==
    {[Year |-> 1, Month |-> 1, Day |-> 2], [Year |-> 1, Month |-> 2, Day |-> 1]}

Records == [DID : PairDIDs, Date : RecordDates]

\* Patient.Diagnoses after the records were read (AddDiagnosis per record)
RecordLists == UNION {[1..n -> Records] : n \in 0..MaxRecords}

diagnosisDateEqual(d1, d2) ==
    d1.Year = d2.Year /\ d1.Month = d2.Month /\ d1.Day = d2.Day

diagnosisEqual(d1, d2) == d1.DID = d2.DID /\ diagnosisDateEqual(d1.Date, d2.Date)

\* SortDiagnoses: sort.Slice with DiagnosisDateSmallerThan as less.  The sort
\* is not stable, so every arrangement of the list in which no entry is
\* followed by one of a smaller date is a possible result.
SortDiagnoses(diagnoses) ==
    LET n == Len(diagnoses)
        arranged(o) == [i \in 1..n |-> diagnoses[o[i]]]
    IN  {arranged(o) : o \in {q \in Orders(1..n) :
            \A i, j \in 1..n : i < j =>
                ~DiagnosisDateSmallerThan(diagnoses[q[j]].Date, diagnoses[q[i]].Date)}}

\* the loop of CompactDiagnoses from entry i on: an entry is appended when
\* it differs from curDiagnosis, the entry appended last
RECURSIVE compactFrom(_, _, _, _)
compactFrom(diagnoses, i, curDiagnosis, newDiagnoses) ==
    IF i > Len(diagnoses) THEN newDiagnoses
    ELSE IF ~diagnosisEqual(curDiagnosis, diagnoses[i])
         THEN compactFrom(diagnoses, i + 1, diagnoses[i],
                          Append(newDiagnoses, diagnoses[i]))
         ELSE compactFrom(diagnoses, i + 1, curDiagnosis, newDiagnoses)

CompactDiagnoses(diagnoses) ==
    IF Len(diagnoses) > 1
    THEN compactFrom(diagnoses, 2, diagnoses[1], <<diagnoses[1]>>)
    ELSE diagnoses

IngestInit ==
    /\ phase = "records"
    /\ cfg = <<>>
    /\ Diagnoses \in [PIDs -> RecordLists]
    /\ DxDRR = <<>>
    /\ DxDPatients = <<>>
    /\ SearchIdle
    /\ PersistIdle
    /\ CohortIdle
    /\ RiskIdle
    /\ ClusterIdle
    /\ KernelIdle

\* parseData.go lines 866-869: every patient's list is sorted, then compacted
SortAndCompact ==
    /\ phase = "records"
    /\ \E sorted \in [PIDs -> UNION {SortDiagnoses(Diagnoses[p]) : p \in PIDs}] :
          /\ \A p \in PIDs : sorted[p] \in SortDiagnoses(Diagnoses[p])
          /\ Diagnoses' = [p \in PIDs |-> CompactDiagnoses(sorted[p])]
    /\ phase' = "ingested"
    /\ UNCHANGED <<cfg, DxDRR, DxDPatients, searchVars, persistVars, cohortVars,
                   riskVars, clusterVars, kernelVars>>

IngestNext == SortAndCompact

SpecIngest == IngestInit /\ [][IngestNext]_vars

\* C17: after ingestion every patient's diagnosis list is in non-decreasing
\* date order and contains no two entries with the same (DID, date), for
\* every input order of the records and every order the date sort gives to
\* same-date entries.
C17_SortedWithoutDuplicates ==
    phase = "ingested" =>
        \A p \in PIDs :
            LET diagnoses == Diagnoses[p]
            IN  /\ \A i, j \in 1..Len(diagnoses) : i < j =>
                      ~DiagnosisDateSmallerThan(diagnoses[j].Date, diagnoses[i].Date)
                /\ \A i, j \in 1..Len(diagnoses) : i # j =>
                      ~diagnosisEqual(diagnoses[i], diagnoses[j])

-----------------------------------------------------------------------------
(* Clustering (src/cluster/clustering.go).  ClusterTrajectories writes the  *)
(* Jaccard-weighted pairs as an edge list, runs the external mcl tools on   *)
(* it and converts the cluster lines they dump into graphs of trajectories. *)
(* The run starts from the pairs and trajectories BuildTrajectories left on *)
(* the experiment: the selected pairs hold one direction of a pair of codes *)
(* at most, every transition of a trajectory is a selected pair, and the    *)
(* trajectory filters and --minTrajectoryLength decide which of the         *)
(* trajectories over the pairs are retained.                                *)

MaxClusterTraj == 3   \* most trajectories retained on the experiment
MaxPathLen == 3       \* most diagnoses of a retained trajectory

\* the lists selectDiagnosisPairs can return over the given cells (i, j), i < j
RECURSIVE pairListsFrom(_)
pairListsFrom(cells) ==
    IF cells = <<>> THEN {<<>>}
    ELSE LET rest == pairListsFrom(Tail(cells))
             i == cells[1][1]
             j == cells[1][2]
         IN  rest \cup {<<[First |-> i, Second |-> j]>> \o r : r \in rest}
                  \cup {<<[First |-> j, Second |-> i]>> \o r : r \in rest}

ClusterPairLists ==
    pairListsFrom(SelectSeq(CellsInOrder(NumDiag), LAMBDA c : c[1] < c[2]))

\* the diagnosis lists of the trajectories that can be built from the pairs
PathsOver(pairs) ==
    {ds \in UNION {[1..n -> DIDs] : n \in 2..MaxPathLen} :
        \A i \in 1..(Len(ds) - 1) :
            \E k \in 1..Len(pairs) : pairs[k] = [First |-> ds[i], Second |-> ds[i + 1]]}

\* a trajectory as the clusterer reads it; the patient numbers fall along it
ClusterTrajectory(ds) ==
    [Diagnoses |-> ds, PatientNumbers |-> [i \in 1..(Len(ds) - 1) |-> Len(ds) + 1 - i],
     ID |-> 0]

ClusterTrajectoryLists(pairs) ==
    {[i \in 1..Len(o) |-> ClusterTrajectory(o[i])] :
        o \in UNION {Orders(S) : S \in {T \in SUBSET PathsOver(pairs) :
                                          Cardinality(T) <= MaxClusterTraj}}}

\* computeTotalOccurencesPairs: diagnosisCounts[d]
RECURSIVE diagnosisCounts(_, _)
diagnosisCounts(trajectories, d) ==
    IF trajectories = <<>> THEN 0
    ELSE Occurrences(trajectories[1].Diagnoses, d)
         + diagnosisCounts(Tail(trajectories), d)

\* computeTotalOccurencesPairs: pairCounts[d1][d2]
RECURSIVE pairCounts(_, _, _)
pairCounts(trajectories, d1, d2) ==
    IF trajectories = <<>> THEN 0
    ELSE LET ds == trajectories[1].Diagnoses
         IN  Cardinality({j \in 1..(Len(ds) - 1) : ds[j] = d1 /\ ds[j + 1] = d2})
             + pairCounts(Tail(trajectories), d1, d2)

\* computeJaccardIndexForPairs: index[d1][d2] as the fraction num/den; -1 for
\* a cell that is no selected pair, den = 0 for the NaN that 0.0/0.0 gives
computeJaccardIndexForPairs(pairs, trajectories) ==
    [d1 \in DIDs |-> [d2 \in DIDs |->
        IF \E k \in 1..Len(pairs) : pairs[k] = [First |-> d1, Second |-> d2]
        THEN LET pairTotal == pairCounts(trajectories, d1, d2)
                 firstTotal == diagnosisCounts(trajectories, d1)
                 secondTotal == diagnosisCounts(trajectories, d2)
             IN  [num |-> pairTotal, den |-> firstTotal + secondTotal - pairTotal]
        ELSE [num |-> -1, den |-> 1]]]

\* the number of millionths that %f prints for num/den (round to nearest,
\* ties to even)
Millionths(num, den) ==
    LET q == (num * Million) \div den
        r == (num * Million) % den
    IN  IF 2 * r > den \/ (2 * r = den /\ q % 2 = 1) THEN q + 1 ELSE q

\* n written with at least w digits
RECURSIVE ZeroPadded(_, _)
ZeroPadded(n, w) ==
    IF w <= 1 THEN DecimalDigits(n)
    ELSE ZeroPadded(n \div 10, w - 1) \o <<Zero + (n % 10)>>

\* fmt.Sprintf("%f", num/den) for a coefficient that is >= 0
FormatF(num, den) ==
    LET m == Millionths(num, den)
    IN  DecimalDigits(m \div Million) \o <<Dot>> \o ZeroPadded(m % Million, 6)

\* line 106: coeff >= 0, which is false for -1.0 and for NaN
coeffWritten(coeff) == coeff.den # 0 /\ coeff.num >= 0

\* convertTrajectoryPairsToAbcFormat: the lines of the edge list
RECURSIVE abcLines(_, _)
abcLines(jaccardIndex, cells) ==
    IF cells = <<>> THEN <<>>
    ELSE LET d1 == cells[1][1]
             d2 == cells[1][2]
             coeff == jaccardIndex[d1][d2]
         IN  (IF coeffWritten(coeff)
              THEN <<Line(DecimalDigits(d1), DecimalDigits(d2),
                          FormatF(coeff.num, coeff.den))>>
              ELSE <<>>) \o abcLines(jaccardIndex, Tail(cells))

\* the node labels on the edge list: the graph the mcl tools cluster
abcNodes(lines) ==
    UNION {{ParseDigits(Split(lines[k], Tab)[1]), ParseDigits(Split(lines[k], Tab)[2])} :
             k \in 1..Len(lines)}

RECURSIVE Partitions(_)
Partitions(S) ==
    IF S = {} THEN {{}}
    ELSE LET x == CHOOSE y \in S : TRUE
         IN  UNION {{{B \cup {x}} \cup rest : rest \in Partitions(S \ (B \cup {x}))} :
                      B \in SUBSET (S \ {x})}

RECURSIVE JoinTab(_)
JoinTab(fields) ==
    IF Len(fields) = 1 THEN fields[1]
    ELSE fields[1] \o <<Tab>> \o JoinTab(Tail(fields))

\* a line of the dump: the labels of one cluster, separated by tabs
clusterLine(B) == JoinTab([i \in 1..Cardinality(B) |-> DecimalDigits(SeqOfSet(B)[i])])

\* what mcxdump can write for the edge list: the clusters partition the
\* nodes, one cluster per line, in any order of the clusters
DumpFiles(lines) ==
    {[i \in 1..Len(o) |-> clusterLine(o[i])] :
        o \in UNION {Orders(Pt) : Pt \in Partitions(abcNodes(lines))}}

\* lines 186-196: misses counts the diagnoses of t that are not in the
\* cluster, and pass is cleared once misses exceeds n
pass(t, cluster, n) ==
    Cardinality({i \in 1..Len(t.Diagnoses) : t.Diagnoses[i] \notin Range(cluster)}) <= n

collectTrajectoriesInCluster_KeepAll(all, trajectories, cluster, n) ==
    [collected |-> SelectSeq(trajectories, LAMBDA i : pass(all[i], cluster, n)),
     uncollected |-> trajectories]

\* collectTrajectoriesInCluster; a trajectory pointer is its index in
\* exp.Trajectories (all)
collectTrajectoriesInCluster(all, trajectories, cluster, n) ==
    [collected |-> SelectSeq(trajectories, LAMBDA i : pass(all[i], cluster, n)),
     uncollected |-> SelectSeq(trajectories, LAMBDA i : ~pass(all[i], cluster, n))]

\* the entries of s in the order of their first occurrence
RECURSIVE Dedupe(_)
Dedupe(s) ==
    IF s = <<>> THEN <<>>
    ELSE LET init == Dedupe(SubSeq(s, 1, Len(s) - 1))
         IN  IF Last(s) \in Range(init) THEN init ELSE Append(init, Last(s))

\* the transitions of a trajectory with their patient numbers
transitionsOf(t) ==
    [i \in 1..(Len(t.Diagnoses) - 1) |->
        <<t.Diagnoses[i], t.Diagnoses[i + 1], t.PatientNumbers[i]>>]

RECURSIVE nodesOfAll(_, _)
nodesOfAll(all, ts) ==
    IF ts = <<>> THEN <<>> ELSE all[ts[1]].Diagnoses \o nodesOfAll(all, Tail(ts))

RECURSIVE edgesOfAll(_, _)
edgesOfAll(all, ts) ==
    IF ts = <<>> THEN <<>> ELSE transitionsOf(all[ts[1]]) \o edgesOfAll(all, Tail(ts))

\* lines 323-355: the graph printed for the trajectories collected at a
\* cluster line; a node is printed once, an edge once per patient number
clusterGraph(all, collected, line) ==
    [line |-> line, collected |-> collected,
     nodes |-> Dedupe(nodesOfAll(all, collected)),
     edges |-> Dedupe(edgesOfAll(all, collected))]

\* lines 359-374: the graph printed for a trajectory no cluster line took
singleGraph(all, t) ==
    [line |-> 0, collected |-> <<t>>,
     nodes |-> all[t].Diagnoses, edges |-> transitionsOf(all[t])]

ClusterInit ==
    /\ phase = "trajectories"
    /\ cfg = <<>>
    /\ Diagnoses = <<>>
    /\ DxDRR = <<>>
    /\ DxDPatients = <<>>
    /\ Pairs \in ClusterPairLists
    /\ Trajectories \in ClusterTrajectoryLists(Pairs)
    /\ heap = [a \in 0..MaxThreads |-> <<>>]
    /\ stack = <<>>
    /\ wk = [w \in Workers |-> IdleWorker]
    /\ filters = <<>>
    /\ PersistIdle
    /\ CohortIdle
    /\ RiskIdle
    /\ ClusterIdle
    /\ KernelIdle

\* ClusterTrajectories line 127: the edge list is written
ConvertTrajectoryPairsToAbcFormat ==
    /\ phase = "trajectories"
    /\ abcFile' = abcLines(computeJaccardIndexForPairs(Pairs, Trajectories),
                           CellsInOrder(NumDiag))
    /\ phase' = "abc"
    /\ UNCHANGED <<cfg, Diagnoses, DxDRR, DxDPatients, searchVars, persistVars,
                   cohortVars, riskVars, kernelVars, dumpFile, graphs>>

\* ClusterTrajectories lines 128-170: mcxload, mcl and mcxdump run
RunMcl ==
    /\ phase = "abc"
    /\ dumpFile' \in DumpFiles(abcFile)
    /\ phase' = "dump"
    /\ UNCHANGED <<cfg, Diagnoses, DxDRR, DxDPatients, searchVars, persistVars,
                   cohortVars, riskVars, kernelVars, abcFile, graphs>>

\* convertToTrajectoryClusterGraphs lines 278-303: the files are opened and
\* every trajectory of the experiment is a candidate
OpenDump ==
    /\ phase = "dump"
    /\ graphs' = [trajectories |-> [i \in 1..Len(Trajectories) |-> i],
                  line |-> 1, out |-> <<>>]
    /\ phase' = "convert"
    /\ UNCHANGED <<cfg, Diagnoses, DxDRR, DxDPatients, searchVars, persistVars,
                   cohortVars, riskVars, kernelVars, abcFile, dumpFile>>

\* lines 304-357: one record of the dump is read, its fields are converted
\* by strconv.Atoi, the trajectories it takes leave the candidates and are
\* printed as one graph
ReadClusterLine ==
    /\ phase = "convert"
    /\ graphs.line <= Len(dumpFile)
    /\ LET record == Split(dumpFile[graphs.line], Tab)
           codes == [k \in 1..Len(record) |-> ParseDigits(record[k])]
           r == collectTrajectoriesInCluster(Trajectories, graphs.trajectories, codes, 1)
       IN  graphs' = [trajectories |-> r.uncollected,
                      line |-> graphs.line + 1,
                      out |-> IF Len(r.collected) > 0
                              THEN Append(graphs.out,
                                          clusterGraph(Trajectories, r.collected, graphs.line))
                              ELSE graphs.out]
    /\ UNCHANGED <<phase, cfg, Diagnoses, DxDRR, DxDPatients, searchVars, persistVars,
                   cohortVars, riskVars, kernelVars, abcFile, dumpFile>>

\* lines 305-307 and 358-375: at the end of the dump the remaining
\* trajectories are printed as graphs of their own
PrintUnclustered ==
    /\ phase = "convert"
    /\ graphs.line > Len(dumpFile)
    /\ graphs' = [graphs EXCEPT !.out = @ \o
                     [k \in 1..Len(graphs.trajectories) |->
                         singleGraph(Trajectories, graphs.trajectories[k])]]
    /\ phase' = "clustered"
    /\ UNCHANGED <<cfg, Diagnoses, DxDRR, DxDPatients, searchVars, persistVars,
                   cohortVars, riskVars, kernelVars, abcFile, dumpFile>>

ClusterNext ==
    \/ ConvertTrajectoryPairsToAbcFormat
    \/ RunMcl
    \/ OpenDump
    \/ ReadClusterLine
    \/ PrintUnclustered

SpecCluster == ClusterInit /\ [][ClusterNext]_vars

\* the weight of an edge-list line, in millionths, read back from its text
WeightOf(line) ==
    LET parts == Split(Split(line, Tab)[3], Dot)
    IN  ParseDigits(parts[1]) * Million + ParseDigits(parts[2])

EdgeWritten(d1, d2) ==
    \E k \in 1..Len(abcFile) :
        /\ ParseDigits(Split(abcFile[k], Tab)[1]) = d1
        /\ ParseDigits(Split(abcFile[k], Tab)[2]) = d2

\* C15: every edge written to the clustering edge list has a Jaccard weight
\* J with 0 < J <= 1, and a selected pair that occurs as an adjacent
\* transition in no retained trajectory produces no edge.
C15_EdgesHavePositiveWeight ==
    phase \in {"abc", "dump", "convert", "clustered"} =>
        /\ \A k \in 1..Len(abcFile) :
              WeightOf(abcFile[k]) > 0 /\ WeightOf(abcFile[k]) <= Million
        /\ \A i \in 1..Len(Pairs) :
              pairCounts(Trajectories, Pairs[i].First, Pairs[i].Second) = 0
                  => ~EdgeWritten(Pairs[i].First, Pairs[i].Second)

\* the cluster lines that take trajectory i: at most one of its diagnoses
\* is outside the cluster
FittingLines(i) ==
    {k \in 1..Len(dumpFile) :
        LET record == Split(dumpFile[k], Tab)
            cluster == {ParseDigits(record[j]) : j \in 1..Len(record)}
            ds == Trajectories[i].Diagnoses
        IN  Cardinality({j \in 1..Len(ds) : ds[j] \notin cluster}) <= 1}

GroupsOf(i) == {g \in 1..Len(graphs.out) : i \in Range(graphs.out[g].collected)}

\* C16: when the cluster lines are ingested in order, every trajectory ends
\* up in exactly one output group: the first cluster line for which at most
\* one of its diagnoses is outside the cluster or, if no line qualifies, a
\* singleton group of its own; no trajectory is placed in two clusters and
\* none is lost.
C16_EveryTrajectoryInOneGroup ==
    /\ phase \in {"convert", "clustered"} =>
          \A i \in 1..Len(Trajectories) :
              /\ Cardinality(GroupsOf(i)) <= 1
              /\ \A g \in GroupsOf(i) : Occurrences(graphs.out[g].collected, i) = 1
    /\ phase = "clustered" =>
          \A i \in 1..Len(Trajectories) :
              /\ Cardinality(GroupsOf(i)) = 1
              /\ \A g \in GroupsOf(i) :
                    IF FittingLines(i) = {}
                    THEN graphs.out[g].line = 0 /\ graphs.out[g].collected = <<i>>
                    ELSE graphs.out[g].line = SetMin(FittingLines(i))

\* a trajectory that two cluster lines would take, a group of two
\* trajectories and a trajectory left to a group of its own
C16_Witness ==
    /\ phase = "clustered"
    /\ \E i \in 1..Len(Trajectories) : Cardinality(FittingLines(i)) >= 2
    /\ \E g \in 1..Len(graphs.out) :
          graphs.out[g].line > 0 /\ Len(graphs.out[g].collected) >= 2
    /\ \E g \in 1..Len(graphs.out) : graphs.out[g].line = 0

-----------------------------------------------------------------------------
(* InitializeExperimentRelativeRiskRatios (metrics.go 537-612).  Relative   *)
(* risks are kept here as exact fractions num/den, den = 0 standing for     *)
(* +Inf, because a/c need not be a multiple of 1/RRUnit.  The comparisons   *)
(* of float64 quotients are made on the exact quotients.  The random draws  *)
(* of a control group are a choice among all lists the coin flips of        *)
(* selectRandomPatientsWithoutShuffle can produce.                          *)

RiskDiag == 2         \* number of diagnosis codes in the RR runs
RiskPatients == 3     \* number of patients in the exhaustive RR runs
MaxIter == 2          \* largest --iter
MaxCarriers == 4      \* most unexposed male carriers of d2 in the stratified runs

RiskDIDs == 0..(RiskDiag - 1)

One == [num |-> 1, den |-> 1]

RECURSIVE Gcd(_, _)
Gcd(a, b) == IF b = 0 THEN a ELSE Gcd(b, a % b)

\* the float64 quotient x / y of two non-negative integers, x > 0 or y > 0
Quotient(x, y) ==
    IF y = 0 THEN [num |-> 1, den |-> 0]
    ELSE [num |-> x \div Gcd(x, y), den |-> y \div Gcd(x, y)]

\* selectRandomPatientsWithoutShuffle from the given position of the loop
\* on: every list the coin flips can leave in collectedPatients
RECURSIVE selectFromPatients(_, _, _, _, _)
selectFromPatients(patients, ctr, patientsToExclude, collectedPatients, skips) ==
    IF patients = <<>> \/ Len(collectedPatients) = ctr THEN {collectedPatients}
    ELSE LET p == patients[1]
             taken == selectFromPatients(Tail(patients), ctr, patientsToExclude,
                                         Append(collectedPatients, p), skips)
         IN  IF p \in patientsToExclude
             THEN selectFromPatients(Tail(patients), ctr, patientsToExclude,
                                     collectedPatients, skips)
             ELSE IF skips > 0
             THEN taken \cup selectFromPatients(Tail(patients), ctr, patientsToExclude,
                                                collectedPatients, skips - 1)
             ELSE taken

selectRandomPatientsWithoutShuffle(patients, ctr, patientsToExclude) ==
    selectFromPatients(patients, ctr, patientsToExclude, <<>>,
                       maxRandSkips(Len(patients), Cardinality(patientsToExclude), ctr))

\* selectRandomPatientsFromSimilarCohorts from cohort i on
RECURSIVE similarFrom(_, _, _, _, _, _)
similarFrom(cohorts, pidMap, nofAgeGroups, patients, pids, i) ==
    IF i \notin DOMAIN cohorts THEN {<<>>}
    ELSE LET ps == SelectSeq(patients,
                       LAMBDA p : cohortIndex(nofAgeGroups, pidMap[p].Sex,
                                              pidMap[p].CohortAge) = i)
         IN  {similarPatients \o others :
                 similarPatients \in selectRandomPatientsWithoutShuffle(
                                        cohorts[i].Patients, Len(ps), pids),
                 others \in similarFrom(cohorts, pidMap, nofAgeGroups, patients, pids,
                                        i + 1)}

selectRandomPatientsFromSimilarCohorts(cohorts, pidMap, nofAgeGroups, patients, pids) ==
    similarFrom(cohorts, pidMap, nofAgeGroups, patients, pids, 0)

\* probNotExposed times len(d1Patients), as the fraction num/den: the sum
\* over the exposed patients of ctr / cohort.NofPatients, where ctr counts
\* the patients of cohort.DPatients[d2] that are not exposed
RECURSIVE sumNotExposed(_, _, _, _, _, _)
sumNotExposed(cohorts, pidMap, nofAgeGroups, d1Patients, d1IDs, d2) ==
    IF d1Patients = <<>> THEN [num |-> 0, den |-> 1]
    ELSE LET p == d1Patients[1]
             cohort == cohorts[cohortIndex(nofAgeGroups, pidMap[p].Sex,
                                           pidMap[p].CohortAge)]
             d2Patients == cohort.DPatients[d2]
             ctr == Cardinality({k \in 1..Len(d2Patients) : d2Patients[k] \notin d1IDs})
             rest == sumNotExposed(cohorts, pidMap, nofAgeGroups, Tail(d1Patients),
                                   d1IDs, d2)
         IN  [num |-> ctr * rest.den + rest.num * cohort.NofPatients,
              den |-> cohort.NofPatients * rest.den]

\* line 573, both sides multiplied by len(d1ExposedPatients):
\* probd2Notd1Exposed >= probd2d1Exposed
unlikely(sum, d2CtrInExposedGroup) == sum.num >= d2CtrInExposedGroup * sum.den

RECURSIVE followedBy(_, _, _, _, _, _)

followedBy_AnyOccurrence(diagsOf, d1ExposedPatients, d1, d2, minTime, maxTime) ==
    IF d1ExposedPatients = <<>> THEN [ctr |-> 0, patients |-> <<>>]
    ELSE LET n == Len(d1ExposedPatients)
             p == d1ExposedPatients[n]
             init == followedBy(diagsOf, SubSeq(d1ExposedPatients, 1, n - 1), d1, d2,
                                minTime, maxTime)
             ctr == countPatientDiagnosis(diagsOf[p], d2)
         IN  [ctr |-> init.ctr + ctr,
              patients |-> IF ctr > 0 /\ p \notin Range(init.patients)
                           THEN Append(init.patients, p) ELSE init.patients]

\* lines 560-566: the exposed patients that d2 follows, each once
followedBy(diagsOf, d1ExposedPatients, d1, d2, minTime, maxTime) ==
    IF d1ExposedPatients = <<>> THEN [ctr |-> 0, patients |-> <<>>]
    ELSE LET n == Len(d1ExposedPatients)
             p == d1ExposedPatients[n]
             init == followedBy(diagsOf, SubSeq(d1ExposedPatients, 1, n - 1), d1, d2,
                                minTime, maxTime)
             ctr == countPatientDiagnosisPair(diagsOf[p], d1, d2, minTime, maxTime).ctr
         IN  [ctr |-> init.ctr + ctr,
              patients |-> IF ctr > 0 /\ p \notin Range(init.patients)
                           THEN Append(init.patients, p) ELSE init.patients]

\* lines 579-583: the number of patients of a control group that have d2
d2CtrOf(diagsOf, notd1ExposedPatients, d2) ==
    Cardinality({k \in 1..Len(notd1ExposedPatients) :
                   countPatientDiagnosis(diagsOf[notd1ExposedPatients[k]], d2) = 1})

\* the sum of the entries of a sequence of numbers
RECURSIVE SumSeq(_)
SumSeq(s) == IF s = <<>> THEN 0 ELSE s[1] + SumSeq(Tail(s))

\* line 589: d2CtrInNotExposedGroup = d2CtrInNotExposedGroup / iter on ints
d2CtrInNotExposedGroup(total, iter) == total \div iter

\* Lines 553-607 for one pair (d1, d2) of a row with exposed patients: what
\* the body can do, depending on the control groups drawn.  An outcome holds
\* the locals of the body when it ends: how it ended (exit), the count a of
\* exposed patients followed by d2 with their list, per sampling round the
\* number of control patients with d2 (rounds), the number of rounds that
\* raised pval, the total and the RR.
pairOutcomes(exp, d1, d2) ==
    LET d1ExposedPatients == exp.DPatients[d1]
        d1IDs == Range(d1ExposedPatients)
        controls == selectRandomPatientsFromSimilarCohorts(
                        exp.Cohorts, exp.PIDMap, exp.nofAgeGroups, d1ExposedPatients, d1IDs)
        f == followedBy(exp.Diagnoses, d1ExposedPatients, d1, d2, exp.minTime,
                        exp.maxTime)
        sum == sumNotExposed(exp.Cohorts, exp.PIDMap, exp.nofAgeGroups,
                             d1ExposedPatients, d1IDs, d2)
        base == [exit |-> "size", a |-> 0, patients |-> <<>>, rounds |-> <<>>,
                 pval |-> 0, total |-> 0, RR |-> One]
        sampled(groups) ==
            LET rounds == [i \in 1..exp.iter |-> d2CtrOf(exp.Diagnoses, groups[i], d2)]
                pval == Cardinality({i \in 1..exp.iter : rounds[i] >= f.ctr})
                total == SumSeq(rounds)
                c == d2CtrInNotExposedGroup(total, exp.iter)
            IN  [base EXCEPT !.exit = IF pval * 1000 > exp.iter THEN "pval" ELSE "stored",
                             !.a = f.ctr, !.patients = f.patients, !.rounds = rounds,
                             !.pval = pval, !.total = total,
                             !.RR = IF pval * 1000 > exp.iter THEN One
                                    ELSE Quotient(f.ctr, c)]
    IN  {base : first \in {g \in controls : Len(g) # Len(d1ExposedPatients)}}
        \cup
        (IF unlikely(sum, f.ctr)
         THEN {[base EXCEPT !.exit = "unlikely", !.a = f.ctr, !.patients = f.patients] :
                  first \in {g \in controls : Len(g) = Len(d1ExposedPatients)}}
         ELSE {sampled(groups) :
                  groups \in {gs \in [1..exp.iter -> controls] :
                                 Len(gs[1]) = Len(d1ExposedPatients)}})

\* an outer worker of the parallel.Range over d1: its range, the row it is
\* at, and the ranges and positions of the inner workers of that row
IdleRow ==
    [lo |-> 0, hi |-> 0, d1 |-> 0, pc |-> "idle",
     inner |-> [i \in Workers |-> [lo |-> 0, hi |-> 0, d2 |-> 0]]]

\* per cell, the bodies that ran for it: the worker and the body's locals
RiskLogEmpty == [d1 \in RiskDIDs |-> [d2 \in RiskDIDs |-> <<>>]]


\* the lists of the patients of the RR runs: up to MaxDiags diagnoses of the
\* codes, one year apart
RiskDiagLists ==
    {DiagListOf(s) : s \in UNION {[1..n -> RiskDIDs] : n \in 0..MaxDiags}}

\* the experiment as ParseTriNetXData builds it from the patients (one age
\* group): InitializeCohorts in PID order, MergeCohorts, the empty matrices
RiskExperiment(pidMap, diagsOf) ==
    LET n == Cardinality(DOMAIN pidMap)
        cohorts == placePatients(makeCohorts(1, RiskDiag), [p \in 1..n |-> p],
                                 pidMap, diagsOf, 1)
        cohort1 == mergeFrom(cohorts[0], cohorts, 1)
    IN  /\ PIDMap = pidMap
        /\ Diagnoses = diagsOf
        /\ Cohorts = [cohorts EXCEPT ![0] = cohort1]
        /\ DPatients = cohort1.DPatients
        /\ DxDRR = [d1 \in RiskDIDs |-> [d2 \in RiskDIDs |-> One]]
        /\ DxDPatients = MakeDxDPatients(RiskDiag)

\* a number per patient, to number the patients in a fixed order
PatientCode(pidMap, diagsOf, p) ==
    pidMap[p].Sex * Pow(NumDiag + 1, MaxDiags + 1) + ListCode(diagsOf[p])

\* a population of two strata given by the number of its patients of each
\* kind: males with d0 followed by d1 a year later, males with d0 only,
\* males with d1 only, males and females without a diagnosis
StrataPopulation(followers, exposedOnly, carriers, plain, females) ==
    LET kinds == [i \in 1..followers |-> <<Male, <<0, 1>>>>]
                 \o [i \in 1..exposedOnly |-> <<Male, <<0>>>>]
                 \o [i \in 1..carriers |-> <<Male, <<1>>>>]
                 \o [i \in 1..plain |-> <<Male, <<>>>>]
                 \o [i \in 1..females |-> <<Female, <<>>>>]
    IN  [pidMap |-> [p \in 1..Len(kinds) |->
                       [Sex |-> kinds[p][1], YOB |-> 0, CohortAge |-> 0]],
         diagsOf |-> [p \in 1..Len(kinds) |-> DiagListOf(kinds[p][2])]]

RiskConfigs ==
    [nofAgeGroups : {1}, iter : 1..MaxIter, minTime : {TimeScale},
     maxTime : {WindowYears * TimeScale}]

\* The experiment when main calls the RR engine (main.go 387): either every
\* population of RiskPatients patients, or a larger population of two
\* strata made of a few kinds of patients.
RiskInit ==
    /\ phase = "rr"
    /\ cfg \in RiskConfigs
    /\ \/ \E pidMap \in [1..RiskPatients -> [Sex : {Male, Female}, YOB : {0},
                                             CohortAge : {0}]] :
          \E diagsOf \in [1..RiskPatients -> RiskDiagLists] :
             /\ \A p \in 1..(RiskPatients - 1) :
                   PatientCode(pidMap, diagsOf, p) <= PatientCode(pidMap, diagsOf, p + 1)
             /\ RiskExperiment(pidMap, diagsOf)
       \/ \E followers \in 1..2, exposedOnly \in 0..1, carriers \in 1..MaxCarriers,
             females \in 0..1 :
             LET population == StrataPopulation(followers, exposedOnly, carriers, 2,
                                                females)
             IN  RiskExperiment(population.pidMap, population.diagsOf)
    /\ sel = <<>>
    /\ risk = [outer |-> [o \in Workers |-> IdleRow], log |-> RiskLogEmpty]
    /\ SearchIdle
    /\ PersistIdle
    /\ ClusterIdle
    /\ KernelIdle

RiskRanges_WholeRangeEach(n) == [w \in Workers |-> <<0, n>>]

\* the batches parallel.Range(0, n, 0, ..) hands to its goroutines
RiskRanges(n) ==
    RangeSplit(0, n, IF n = 0 THEN 1 ELSE IF MaxThreads > n THEN n ELSE MaxThreads)

\* the experiment and the arguments as the body of a pair reads them
RiskExp ==
    [DPatients |-> DPatients, Cohorts |-> Cohorts, PIDMap |-> PIDMap,
     Diagnoses |-> Diagnoses, nofAgeGroups |-> cfg.nofAgeGroups, iter |-> cfg.iter,
     minTime |-> cfg.minTime, maxTime |-> cfg.maxTime]

\* lines 541-546: the index vector is built and the outer workers start
RiskStart ==
    /\ phase = "rr"
    /\ LET ranges == RiskRanges(RiskDiag)
       IN  risk' = [risk EXCEPT !.outer = [o \in Workers |->
                       IF o <= Len(ranges)
                       THEN [IdleRow EXCEPT !.lo = ranges[o][1], !.hi = ranges[o][2],
                                            !.d1 = ranges[o][1], !.pc = "row"]
                       ELSE [IdleRow EXCEPT !.pc = "done"]]]
    /\ phase' = "rrrun"
    /\ UNCHANGED <<cfg, Diagnoses, DxDRR, DxDPatients, searchVars, persistVars,
                   cohortVars, clusterVars, kernelVars>>

\* lines 547-551: an outer worker takes its next d1; a row without exposed
\* patients is passed over, else the inner workers start
EnterRow(o) ==
    /\ phase = "rrrun"
    /\ risk.outer[o].pc = "row"
    /\ LET w == risk.outer[o]
           ranges == RiskRanges(RiskDiag)
       IN  risk' = [risk EXCEPT !.outer[o] =
                       IF w.d1 >= w.hi THEN [w EXCEPT !.pc = "done"]
                       ELSE IF Len(DPatients[w.d1]) = 0 THEN [w EXCEPT !.d1 = @ + 1]
                       ELSE [w EXCEPT !.pc = "inner",
                                      !.inner = [i \in Workers |->
                                          IF i <= Len(ranges)
                                          THEN [lo |-> ranges[i][1], hi |-> ranges[i][2],
                                                d2 |-> ranges[i][1]]
                                          ELSE [lo |-> 0, hi |-> 0, d2 |-> 0]]]]
    /\ UNCHANGED <<phase, cfg, Diagnoses, DxDRR, DxDPatients, searchVars, persistVars,
                   cohortVars, clusterVars, kernelVars>>

\* lines 552-607: an inner worker runs the body for its next d2
ProcessPair(o, i) ==
    /\ phase = "rrrun"
    /\ risk.outer[o].pc = "inner"
    /\ risk.outer[o].inner[i].d2 < risk.outer[o].inner[i].hi
    /\ LET d1 == risk.outer[o].d1
           d2 == risk.outer[o].inner[i].d2
       IN  \E outcome \in pairOutcomes(RiskExp, d1, d2) :
              /\ risk' = [risk EXCEPT
                            !.outer[o].inner[i].d2 = @ + 1,
                            !.log[d1][d2] = Append(@, [worker |-> <<o, i>>,
                                                       body |-> outcome])]
              /\ IF outcome.exit = "stored"
                 THEN /\ DxDRR' = [DxDRR EXCEPT ![d1][d2] = outcome.RR]
                      /\ DxDPatients' = [DxDPatients EXCEPT ![d1][d2] = outcome.patients]
                 ELSE UNCHANGED <<DxDRR, DxDPatients>>
    /\ UNCHANGED <<phase, cfg, Diagnoses, searchVars, persistVars, cohortVars,
                   clusterVars, kernelVars>>

\* line 608: the inner parallel.Range returns when its workers are done
LeaveRow(o) ==
    /\ phase = "rrrun"
    /\ risk.outer[o].pc = "inner"
    /\ \A i \in Workers : risk.outer[o].inner[i].d2 >= risk.outer[o].inner[i].hi
    /\ risk' = [risk EXCEPT !.outer[o].pc = "row", !.outer[o].d1 = @ + 1]
    /\ UNCHANGED <<phase, cfg, Diagnoses, DxDRR, DxDPatients, searchVars, persistVars,
                   cohortVars, clusterVars, kernelVars>>

\* line 611: the outer parallel.Range returns
RiskReturn ==
    /\ phase = "rrrun"
    /\ \A o \in Workers : risk.outer[o].pc = "done"
    /\ phase' = "pairs"
    /\ UNCHANGED <<cfg, Diagnoses, DxDRR, DxDPatients, searchVars, persistVars,
                   cohortVars, riskVars, clusterVars, kernelVars>>

RiskNext ==
    \/ RiskStart
    \/ \E o \in Workers : EnterRow(o)
    \/ \E o, i \in Workers : ProcessPair(o, i)
    \/ \E o \in Workers : LeaveRow(o)
    \/ RiskReturn

SpecRisk == RiskInit /\ [][RiskNext]_vars

\* the patients diagnosed with d, from their diagnosis lists
ExposedTo(d) == {p \in DOMAIN PIDMap : countPatientDiagnosis(Diagnoses[p], d) = 1}

\* the exposed patients that d2 follows within the window
Followers(d1, d2) ==
    {p \in ExposedTo(d1) :
        countPatientDiagnosisPair(Diagnoses[p], d1, d2, cfg.minTime, cfg.maxTime).ctr = 1}

\* every stratum holds as many unexposed patients as exposed ones
ControlFeasible(d1) ==
    \A c \in DOMAIN Cohorts :
        Cardinality(PlacedIn(c) \ ExposedTo(d1)) >= Cardinality(PlacedIn(c) \cap ExposedTo(d1))

\* a common denominator of the stratum sizes
RECURSIVE StrataProduct(_)
StrataProduct(cs) ==
    IF cs = {} THEN 1
    ELSE LET c == CHOOSE x \in cs : TRUE
         IN  Max2(1, Cardinality(PlacedIn(c))) * StrataProduct(cs \ {c})

\* StrataProduct times the sum, over the patients ps, of the share of the
\* patient's stratum that has d2 and is not exposed to d1
RECURSIVE UnexposedShares(_, _, _)
UnexposedShares(ps, d1, d2) ==
    IF ps = {} THEN 0
    ELSE LET p == CHOOSE x \in ps : TRUE
             stratum == PlacedIn(StratumOf(p))
         IN  (Cardinality((stratum \cap ExposedTo(d2)) \ ExposedTo(d1))
                * StrataProduct(DOMAIN Cohorts)) \div Cardinality(stratum)
             + UnexposedShares(ps \ {p}, d1, d2)

\* the unexposed d2 prevalence is below a/|E|
PrevalenceBelow(d1, d2) ==
    UnexposedShares(ExposedTo(d1), d1, d2)
        < Cardinality(Followers(d1, d2)) * StrataProduct(DOMAIN Cohorts)

CellChanged(d1, d2) == DxDRR[d1][d2] # One \/ DxDPatients[d1][d2] # <<>>

\* C11: the RR engine changes a cell (d1,d2) only when the pair passed every
\* filter: the exposed set of d1 is non-empty, a full-size control group
\* could be drawn, the exposed-followed count a is positive with the
\* unexposed d2 prevalence below a/|E|, and the fraction of the iter rounds
\* whose control d2 count was >= a is at most 0.001; in every other case
\* RR[d1][d2] keeps its initial value 1.0 and DxDPatients[d1][d2] stays empty.
C11_ChangedOnlyAfterEveryFilter ==
    phase \in {"rrrun", "pairs"} =>
        \A d1, d2 \in RiskDIDs :
            CellChanged(d1, d2) =>
                /\ ExposedTo(d1) # {}
                /\ ControlFeasible(d1)
                /\ Cardinality(Followers(d1, d2)) > 0
                /\ PrevalenceBelow(d1, d2)
                /\ \E k \in 1..Len(risk.log[d1][d2]) :
                      LET body == risk.log[d1][d2][k].body
                      IN  /\ Len(body.rounds) = cfg.iter
                          /\ Cardinality({i \in 1..cfg.iter :
                                body.rounds[i] >= Cardinality(Followers(d1, d2))}) * 1000
                                <= cfg.iter

\* C12: when a cell (d1,d2) is stored, its RR equals a divided by c, where a
\* is the exposed-followed count and c is the average (total divided by
\* iter, not rounded) over the iter sampling rounds of the number of control
\* patients having d2; equivalently RR * total = a * iter.
C12_RRIsCountOverAverage ==
    phase \in {"rrrun", "pairs"} =>
        \A d1, d2 \in RiskDIDs : \A k \in 1..Len(risk.log[d1][d2]) :
            LET body == risk.log[d1][d2][k].body
            IN  body.exit = "stored" =>
                    /\ body.a = Cardinality(Followers(d1, d2))
                    /\ body.total = SumSeq(body.rounds)
                    /\ DxDRR[d1][d2] = Quotient(body.a * cfg.iter, body.total)

\* patient p has an occurrence of d2 after its first occurrence of d1, at a
\* date gap to that occurrence within [minTime, maxTime]
FollowsInWindow(p, d1, d2) ==
    LET diags == Diagnoses[p]
    IN  \E i, j \in 1..Len(diags) :
           /\ diags[i].DID = d1
           /\ \A k \in 1..(i - 1) : diags[k].DID # d1
           /\ i < j
           /\ diags[j].DID = d2
           /\ DiagnosisDateToFloat(diags[j].Date) - DiagnosisDateToFloat(diags[i].Date)
                 >= cfg.minTime
           /\ DiagnosisDateToFloat(diags[j].Date) - DiagnosisDateToFloat(diags[i].Date)
                 <= cfg.maxTime

\* C13: after RR initialization, for all d1, d2: DxDPatients[d1][d2] is a
\* duplicate-free subset of DPatients[d1] (so it is no longer than
\* DPatients[d1]), and every member has an occurrence of d2 positioned after
\* its first occurrence of d1 whose date gap to that first d1 occurrence
\* lies in [minTime, maxTime].
C13_PairPatientsFollowInWindow ==
    phase \in {"rrrun", "pairs"} =>
        \A d1, d2 \in RiskDIDs :
            LET patients == DxDPatients[d1][d2]
            IN  /\ \A x, y \in 1..Len(patients) : x # y => patients[x] # patients[y]
                /\ Range(patients) \subseteq Range(DPatients[d1])
                /\ Len(patients) <= Len(DPatients[d1])
                /\ \A p \in Range(patients) : FollowsInWindow(p, d1, d2)

\* the engine has returned with a stored cell that holds an exposed patient
\* and leaves out another exposed patient
C13_Witness ==
    /\ phase = "pairs"
    /\ \E d1, d2 \in RiskDIDs :
          /\ Len(DxDPatients[d1][d2]) >= 1
          /\ Len(DxDPatients[d1][d2]) < Len(DPatients[d1])

\* C14: during parallel RR initialization no two workers write the same cell
\* of the RR matrix or of the pair-patient-list matrix: each ordered pair
\* (d1,d2) is processed by exactly one worker exactly once, and workers write
\* nothing else that is shared.
C14_EveryCellHasOneWriter ==
    /\ [](phase \in {"rrrun", "pairs"} =>
             \A d1, d2 \in RiskDIDs : Len(risk.log[d1][d2]) <= 1)
    /\ [](phase = "pairs" =>
             \A d1, d2 \in RiskDIDs :
                 Len(risk.log[d1][d2]) = IF Len(DPatients[d1]) > 0 THEN 1 ELSE 0)
    /\ [][phase = "rrrun" =>
             /\ <<Diagnoses, PIDMap, Cohorts, DPatients>>'
                   = <<Diagnoses, PIDMap, Cohorts, DPatients>>
             /\ \A d1, d2 \in RiskDIDs :
                   <<DxDRR[d1][d2], DxDPatients[d1][d2]>>'
                         # <<DxDRR[d1][d2], DxDPatients[d1][d2]>>
                      => /\ risk.log[d1][d2] = <<>>
                         /\ Len(risk'.log[d1][d2]) = 1]_vars

\* the engine has returned, the cells of a row were processed by different
\* inner workers, two rows by different outer workers, and a cell was stored
C14_Witness ==
    /\ phase = "pairs"
    /\ \E d1, d2, e2 \in RiskDIDs :
          /\ d2 # e2
          /\ Len(risk.log[d1][d2]) = 1 /\ Len(risk.log[d1][e2]) = 1
          /\ risk.log[d1][d2][1].worker # risk.log[d1][e2][1].worker
    /\ \E d1, e1, d2 \in RiskDIDs :
          /\ Len(risk.log[d1][d2]) = 1 /\ Len(risk.log[e1][d2]) = 1
          /\ risk.log[d1][d2][1].worker[1] # risk.log[e1][d2][1].worker[1]
    /\ \E d1, d2 \in RiskDIDs : CellChanged(d1, d2)

====
